---------------------------- MODULE Spec2Model ----------------------------
(***************************************************************************)
(* A model of goldjson: the incremental line-delimited JSON encoder        *)
(* (Encoder, LineWriter), its key cache (keyStore) and the token encoders  *)
(* of package tokens.                                                      *)
(*                                                                         *)
(* Bytes are numbers 0..255; a []byte and a string's content are sequences *)
(* of bytes.  A uint64 bit set is the set of its set bit positions, a      *)
(* subset of 0..63 (TLC's integers are 32 bits wide).                      *)
(***************************************************************************)
EXTENDS Integers, Sequences, FiniteSets, TLC

(***************************************************************************)
(* Bounds of the model.                                                    *)
(***************************************************************************)
\* callers building lines concurrently
NumCallers == 2
\* LineWriter objects NewLine may allocate
MaxWriters == 2
\* calls made on the Encoder and its writers in one run, PrepareKey aside
MaxCalls == 5
\* bytes of the strings handed to AppendString on its own
MaxStrLen == 3
\* calls the caller of SpecFrames makes as it likes once it is at its depth
MaxFree == 2
\* lines the caller of SpecFrames builds, one after the other
MaxLines == 2
\* scopes the deep-nesting caller opens past twice the frame width
MaxOver == 2
\* Put/Append calls and re-allocations in one run of the key store
MaxKeyOps == 3

(***************************************************************************)
(* Bytes and sequences.                                                    *)
(***************************************************************************)
Nil == "nil"

\* append(buf, b...)
Cat(a, b) == a \o b

\* s[lo:hi] of Go, 0-based, hi exclusive
Slice(s, lo, hi) == SubSeq(s, lo + 1, hi)

\* s[i] of Go, 0-based
At(s, i) == s[i + 1]

IsPrefix(p, s) == Len(p) <= Len(s) /\ SubSeq(s, 1, Len(p)) = p

\* var hex = "0123456789abcdef"
hex == <<48, 49, 50, 51, 52, 53, 54, 55, 56, 57, 97, 98, 99, 100, 101, 102>>

\* mutant of safeSet: the quote counts as safe
safeSetQuote(b) == b >= 32 /\ b < 128 /\ b # 92

\* safeSet: every ASCII byte but the control characters, '"' and '\'
safeSet(b) == b >= 32 /\ b < 128 /\ b # 34 /\ b # 92


(***************************************************************************)
(* Package tokens.                                                         *)
(***************************************************************************)
\* utf8.RuneError
RuneError == 65533

\* the first-byte table of unicode/utf8: the size of the encoding and the
\* range the second byte must lie in; size 0 marks an invalid first byte
utf8First(b0) ==
    IF b0 >= 194 /\ b0 <= 223 THEN [size |-> 2, lo |-> 128, hi |-> 191]
    ELSE IF b0 = 224 THEN [size |-> 3, lo |-> 160, hi |-> 191]
    ELSE IF b0 = 237 THEN [size |-> 3, lo |-> 128, hi |-> 159]
    ELSE IF b0 >= 225 /\ b0 <= 239 THEN [size |-> 3, lo |-> 128, hi |-> 191]
    ELSE IF b0 = 240 THEN [size |-> 4, lo |-> 144, hi |-> 191]
    ELSE IF b0 >= 241 /\ b0 <= 243 THEN [size |-> 4, lo |-> 128, hi |-> 191]
    ELSE IF b0 = 244 THEN [size |-> 4, lo |-> 128, hi |-> 143]
    ELSE [size |-> 0, lo |-> 0, hi |-> 0]

IsCont(b) == b >= 128 /\ b <= 191

\* utf8.DecodeRuneInString(s[i:]): the rune and the bytes it takes
decodeRune(s, i, n, b0, x, bad) ==
    IF n < 1 THEN [c |-> RuneError, size |-> 0]
    ELSE IF b0 < 128 THEN [c |-> b0, size |-> 1]
    ELSE IF x.size = 0 \/ n < x.size THEN bad
    ELSE IF At(s, i + 1) < x.lo \/ At(s, i + 1) > x.hi THEN bad
    ELSE IF x.size = 2
         THEN [c |-> (b0 % 32) * 64 + (At(s, i + 1) % 64), size |-> 2]
    ELSE IF ~IsCont(At(s, i + 2)) THEN bad
    ELSE IF x.size = 3
         THEN [c |-> (b0 % 16) * 4096 + (At(s, i + 1) % 64) * 64
                     + (At(s, i + 2) % 64), size |-> 3]
    ELSE IF ~IsCont(At(s, i + 3)) THEN bad
    ELSE [c |-> (b0 % 8) * 262144 + (At(s, i + 1) % 64) * 4096
                + (At(s, i + 2) % 64) * 64 + (At(s, i + 3) % 64), size |-> 4]

DecodeRuneInString(s, i) ==
    decodeRune(s, i, Len(s) - i, At(s, i), utf8First(At(s, i)),
               [c |-> RuneError, size |-> 1])

\* the escape written after the backslash for an unsafe ASCII byte
escapeASCII(b) ==
    IF b = 92 \/ b = 34 THEN <<b>>
    ELSE IF b = 10 THEN <<110>>
    ELSE IF b = 13 THEN <<114>>
    ELSE IF b = 9 THEN <<116>>
    ELSE <<117, 48, 48, At(hex, b \div 16), At(hex, b % 16)>>

RECURSIVE jsonStringLoop(_, _, _, _)
\* one round of the loop of appendJSONString, at the byte b == s[i]: flushed
\* is the buffer with the safe bytes s[start:i] copied, r the rune at s[i:]
jsonStringRound(buf, s, start, i, b, flushed, r) ==
    IF b < 128
    THEN IF safeSet(b)
         THEN jsonStringLoop(buf, s, start, i + 1)
         ELSE jsonStringLoop(Cat(Cat(flushed, <<92>>), escapeASCII(b)),
                             s, i + 1, i + 1)
    ELSE IF r.c = RuneError /\ r.size = 1
    THEN \* the escape of U+FFFD, the replacement character
         jsonStringLoop(Cat(flushed, <<92, 117, 102, 102, 102, 100>>),
                        s, i + r.size, i + r.size)
    ELSE IF r.c = 8232 \/ r.c = 8233
    THEN \* \u202 and hex[c&0xF]
         jsonStringLoop(Cat(flushed, <<92, 117, 50, 48, 50, At(hex, r.c % 16)>>),
                        s, i + r.size, i + r.size)
    ELSE jsonStringLoop(buf, s, start, i + r.size)

\* the loop of appendJSONString: bytes s[start:i] are safe and not yet copied
jsonStringLoop(buf, s, start, i) ==
    IF i >= Len(s)
    THEN IF start < Len(s) THEN Cat(buf, Slice(s, start, Len(s))) ELSE buf
    ELSE jsonStringRound(buf, s, start, i, At(s, i),
                         IF start < i THEN Cat(buf, Slice(s, start, i)) ELSE buf,
                         DecodeRuneInString(s, i))

appendJSONString(buf, s) == jsonStringLoop(buf, s, 0, 0)

AppendString(buf, s) == Cat(appendJSONString(Cat(buf, <<34>>), s), <<34>>)

RECURSIVE formatUint(_)
\* the decimal digits of n >= 0
formatUint(n) ==
    IF n < 10 THEN <<48 + n>> ELSE Cat(formatUint(n \div 10), <<48 + (n % 10)>>)

AppendInt64(buf, value) ==
    IF value < 0 THEN Cat(Cat(buf, <<45>>), formatUint(-value))
    ELSE Cat(buf, formatUint(value))

AppendUint64(buf, value) == Cat(buf, formatUint(value))

\* "true" / "false"
AppendBool(buf, value) ==
    IF value THEN Cat(buf, <<116, 114, 117, 101>>)
    ELSE Cat(buf, <<102, 97, 108, 115, 101>>)

(***************************************************************************)
(* A float64 is its class and, when finite, its sign and the shortest      *)
(* decimal that round-trips (strconv's decimal): digits d and the decimal  *)
(* point position dp, the value being 0.d[1]d[2]... * 10^dp; zero has no   *)
(* digits.                                                                 *)
(***************************************************************************)
Float(class, neg, d, dp) == [class |-> class, neg |-> neg, d |-> d, dp |-> dp]

Min(a, b) == IF a < b THEN a ELSE b
Max(a, b) == IF a > b THEN a ELSE b

Zeros(n) == [i \in 1..n |-> 48]

DigitBytes(d) == [i \in 1..Len(d) |-> 48 + d[i]]

\* math.Abs(value) < 1e-6
absBelowMicro(v) == v.d = <<>> \/ v.dp <= -6

\* math.Abs(value) >= 1e21
absAtLeast1e21(v) == v.d # <<>> /\ v.dp >= 22

\* strconv's %e with the shortest precision
fmtE(v) ==
    LET nd == Len(v.d)
        prec == Max(nd - 1, 0)
        exp0 == IF nd = 0 THEN 0 ELSE v.dp - 1
        exp == IF exp0 < 0 THEN -exp0 ELSE exp0
    IN  (IF v.neg THEN <<45>> ELSE <<>>)
        \o (IF nd # 0 THEN <<48 + v.d[1]>> ELSE <<48>>)
        \o (IF prec > 0
            THEN <<46>> \o DigitBytes(SubSeq(v.d, 2, Min(nd, prec + 1)))
            ELSE <<>>)
        \o <<101>>
        \o (IF exp0 < 0 THEN <<45>> ELSE <<43>>)
        \o (IF exp < 10 THEN <<48, 48 + exp>>
            ELSE IF exp < 100 THEN <<48 + (exp \div 10), 48 + (exp % 10)>>
            ELSE <<48 + (exp \div 100), 48 + ((exp \div 10) % 10), 48 + (exp % 10)>>)

\* strconv's %f with the shortest precision
fmtF(v) ==
    LET nd == Len(v.d)
        prec == Max(nd - v.dp, 0)
        m == Min(nd, v.dp)
    IN  (IF v.neg THEN <<45>> ELSE <<>>)
        \o (IF v.dp > 0
            THEN DigitBytes(SubSeq(v.d, 1, m)) \o Zeros(v.dp - m)
            ELSE <<48>>)
        \o (IF prec > 0
            THEN <<46>> \o [i \in 1..prec |->
                    IF v.dp + i >= 1 /\ v.dp + i <= nd THEN 48 + v.d[v.dp + i] ELSE 48]
            ELSE <<>>)

\* strconv.AppendFloat(buf, value, fmt, -1, 64), fmt 'e' (101) or 'f' (102)
strconvAppendFloat(buf, v, fmt) == Cat(buf, IF fmt = 101 THEN fmtE(v) ELSE fmtF(v))

\* mutant of AppendFloat64: NaN is written without the quotes
AppendFloat64RawNaN(buf, value) ==
    IF value.class = "+Inf" THEN Cat(buf, <<34, 43, 73, 110, 102, 34>>)
    ELSE IF value.class = "-Inf" THEN Cat(buf, <<34, 45, 73, 110, 102, 34>>)
    ELSE IF value.class = "NaN" THEN Cat(buf, <<78, 97, 78>>)
    ELSE LET fmt == IF absBelowMicro(value) \/ absAtLeast1e21(value) THEN 101 ELSE 102
             oldLen == Len(buf)
             buf1 == strconvAppendFloat(buf, value, fmt)
             b == Slice(buf1, oldLen, Len(buf1))
             n == Len(b)
         IN  \* clean up e-09 to e-9
             IF fmt = 101 /\ n >= 4 /\ At(b, n - 4) = 101 /\ At(b, n - 3) = 45
                /\ At(b, n - 2) = 48
             THEN Cat(Slice(buf1, 0, Len(buf1) - 2), <<At(b, n - 1)>>)
             ELSE buf1

AppendFloat64(buf, value) ==
    IF value.class = "+Inf" THEN Cat(buf, <<34, 43, 73, 110, 102, 34>>)
    ELSE IF value.class = "-Inf" THEN Cat(buf, <<34, 45, 73, 110, 102, 34>>)
    ELSE IF value.class = "NaN" THEN Cat(buf, <<34, 78, 97, 78, 34>>)
    ELSE LET fmt == IF absBelowMicro(value) \/ absAtLeast1e21(value) THEN 101 ELSE 102
             oldLen == Len(buf)
             buf1 == strconvAppendFloat(buf, value, fmt)
             b == Slice(buf1, oldLen, Len(buf1))
             n == Len(b)
         IN  \* clean up e-09 to e-9
             IF fmt = 101 /\ n >= 4 /\ At(b, n - 4) = 101 /\ At(b, n - 3) = 45
                /\ At(b, n - 2) = 48
             THEN Cat(Slice(buf1, 0, Len(buf1) - 2), <<At(b, n - 1)>>)
             ELSE buf1

(***************************************************************************)
(* A time.Time is its wall clock in its own location: year, month, day,    *)
(* hour, min, sec, nsec, and the location's offset from UTC in seconds.    *)
(***************************************************************************)
RECURSIVE padUint(_, _)
\* n >= 0 in decimal, zero-padded to at least width digits
padUint(n, width) ==
    IF width <= 1 /\ n < 10 THEN <<48 + n>>
    ELSE Cat(padUint(n \div 10, width - 1), <<48 + (n % 10)>>)

RECURSIVE trimZeros(_)
\* the digits without their trailing zeros
trimZeros(ds) ==
    IF ds # <<>> /\ ds[Len(ds)] = 48 THEN trimZeros(SubSeq(ds, 1, Len(ds) - 1)) ELSE ds

\* value.AppendFormat(buf, time.RFC3339Nano): "2006-01-02T15:04:05.999999999Z07:00"
AppendFormatRFC3339Nano(buf, t) ==
    LET zone == (IF t.offset < 0 THEN -t.offset ELSE t.offset) \div 60
    IN  buf \o padUint(t.year, 4) \o <<45>> \o padUint(t.month, 2) \o <<45>>
            \o padUint(t.day, 2) \o <<84>> \o padUint(t.hour, 2) \o <<58>>
            \o padUint(t.min, 2) \o <<58>> \o padUint(t.sec, 2)
            \o (IF t.nsec = 0 THEN <<>> ELSE <<46>> \o trimZeros(padUint(t.nsec, 9)))
            \o (IF t.offset = 0 THEN <<90>>
                ELSE (IF t.offset < 0 THEN <<45>> ELSE <<43>>)
                     \o padUint(zone \div 60, 2) \o <<58>> \o padUint(zone % 60, 2))

ErrTimeRange == "time.Time year outside of range [0,9999]"

\* mutant of AppendTime: the year 10000 is let through
AppendTimeYear10000(buf, value) ==
    IF value.year < 0 \/ value.year > 10000
    THEN [buf |-> buf, err |-> ErrTimeRange]
    ELSE [buf |-> Cat(AppendFormatRFC3339Nano(Cat(buf, <<34>>), value), <<34>>),
          err |-> Nil]

\* AppendTime returns the buffer and the error (Nil: none)
AppendTime(buf, value) ==
    IF value.year < 0 \/ value.year >= 10000
    THEN [buf |-> buf, err |-> ErrTimeRange]
    ELSE [buf |-> Cat(AppendFormatRFC3339Nano(Cat(buf, <<34>>), value), <<34>>),
          err |-> Nil]

(***************************************************************************)
(* The values handed to AppendMarshal: a Point, an ErrorMarshal, or a      *)
(* string.  jsonEncode is what encoding/json's Encoder.Encode writes for   *)
(* them: the JSON text and a line terminator, or nothing and an error.     *)
(***************************************************************************)
ErrMarshal == "failed"

RECURSIVE htmlEscape(_)
\* the string escaping of encoding/json with HTML escaping on: <, > and &
\* become \u003c, \u003e, \u0026
htmlEscape(s) ==
    IF s = <<>> THEN <<>>
    ELSE (IF s[1] \in {60, 62, 38}
          THEN <<92, 117, 48, 48, At(hex, s[1] \div 16), At(hex, s[1] % 16)>>
          ELSE <<s[1]>>) \o htmlEscape(Tail(s))

jsonEncode(value, escapeHTML) ==
    IF value.kind = "ErrorMarshal" THEN [out |-> <<>>, err |-> ErrMarshal]
    ELSE IF value.kind = "Point"
    THEN \* {"x":..,"y":..}
         [out |-> <<123, 34, 120, 34, 58>> \o formatUint(value.x)
                  \o <<44, 34, 121, 34, 58>> \o formatUint(value.y) \o <<125, 10>>,
          err |-> Nil]
    ELSE [out |-> Cat(IF escapeHTML THEN htmlEscape(AppendString(<<>>, value.s))
                      ELSE AppendString(<<>>, value.s), <<10>>),
          err |-> Nil]

\* bytesWriter.Write
bytesWriterWrite(buf, data) == Cat(buf, data)

\* mutant of AppendMarshal: the encoder is left to escape HTML characters
AppendMarshalEscapeHTML(buf, value) ==
    LET r == jsonEncode(value, TRUE)
        bw == bytesWriterWrite(buf, r.out)
    IN  IF r.err # Nil THEN [buf |-> buf, err |-> r.err]
        ELSE [buf |-> Slice(bw, 0, Len(bw) - 1), err |-> Nil]

AppendMarshal(buf, value) ==
    LET r == jsonEncode(value, FALSE)
        bw == bytesWriterWrite(buf, r.out)
    IN  IF r.err # Nil THEN [buf |-> buf, err |-> r.err]
        ELSE \* remove final newline
             [buf |-> Slice(bw, 0, Len(bw) - 1), err |-> Nil]

(***************************************************************************)
(* key_store.go.  A string is its storage address and its bytes; the       *)
(* keyStore is a map from addresses to encoded keys, nil until the first    *)
(* Put.                                                                    *)
(***************************************************************************)
Str(addr, s) == [addr |-> addr, s |-> s]

\* the zero keyStore: keys == nil
NilKeyStore == [nil |-> TRUE, m |-> <<>>]

\* keyStore.key: the string's data pointer
keyStoreKey(key) == key.addr

\* s.keys[k]: the stored bytes, nil when there are none
keyStoreGet(ks, k) == IF k \in DOMAIN ks.m THEN ks.m[k] ELSE <<>>

keyStorePutEntry(ks, key, b) ==
    [nil |-> FALSE,
     m |-> [a \in DOMAIN ks.m \cup {keyStoreKey(key)} |->
               IF a = keyStoreKey(key) THEN b ELSE ks.m[a]]]

\* mutant of keyStorePut: the escaped form is stored whatever its length
keyStorePutAlways(ks, key) ==
    keyStorePutEntry(ks, key, AppendString(<<>>, key.s))

keyStorePut(ks, key) ==
    LET b == AppendString(<<>>, key.s)
    IN  IF Len(b) = Len(key.s) + 2
        THEN keyStorePutEntry(ks, key, b)
        ELSE [nil |-> FALSE, m |-> ks.m]

keyStoreAppend(ks, buf, key) ==
    LET b == keyStoreGet(ks, keyStoreKey(key))
    IN  IF Len(b) = Len(key.s) + 2 THEN Cat(buf, b) ELSE AppendString(buf, key.s)

(***************************************************************************)
(* LineWriter.  parent is the empty sequence (nil) or holds the parent     *)
(* frame; encoder is "enc" (the Encoder) or Nil.  An operation yields the  *)
(* writer and whether it panicked on the way (a nil dereference); a        *)
(* panicking operation keeps what it had assigned before the panic.        *)
(***************************************************************************)
\* the levels one frame holds: bits 0..63 of isFirstEntry and isArray
FrameWidth == 64

LineWriter(buf, depth, isFirstEntry, isArray, parent, encoder) ==
    [buf |-> buf, depth |-> depth, isFirstEntry |-> isFirstEntry,
     isArray |-> isArray, parent |-> parent, encoder |-> encoder]

\* &LineWriter{encoder: e}
NewLineWriter == LineWriter(<<>>, 0, {}, {}, <<>>, "enc")

\* 1 << d as a bit set: shifts of 64 and more give 0
Bit(d) == IF d < FrameWidth THEN {d} ELSE {}

\* x ^ y
Xor(x, y) == (x \ y) \cup (y \ x)

Ok(l) == [l |-> l, panic |-> FALSE]
Panic(l) == [l |-> l, panic |-> TRUE]

\* the separator part of appendKey
appendKeySep(l) ==
    IF l.isFirstEntry \cap Bit(l.depth) = {}
    THEN [l EXCEPT !.buf = Cat(l.buf, <<44>>)]
    ELSE [l EXCEPT !.isFirstEntry = Xor(l.isFirstEntry, Bit(l.depth))]

\* the key part of appendKey; l.encoder.keys panics on a nil encoder
appendKeyKey(l, ks, key) ==
    IF l.isArray \cap Bit(l.depth) = {}
    THEN IF l.encoder = Nil THEN Panic(l)
         ELSE Ok([l EXCEPT !.buf = Cat(keyStoreAppend(ks, l.buf, key), <<58>>)])
    ELSE Ok(l)

\* a shift by a negative count panics
appendKey(l, ks, key) ==
    IF l.depth < 0 THEN Panic(l) ELSE appendKeyKey(appendKeySep(l), ks, key)

\* mutant of pushRecord: the new scope's first-entry bit is not set
pushRecordNoFirst(l) ==
    LET l1 == [l EXCEPT !.buf = Cat(l.buf, <<123>>)]
    IN  IF l1.depth = FrameWidth - 1
        THEN LineWriter(l1.buf, 0, {}, {}, <<l1>>, l1.encoder)
        ELSE [l1 EXCEPT !.depth = l1.depth + 1,
                        !.isArray = l1.isArray \ Bit(l1.depth + 1)]

\* mutant of pushRecord: the list bit of the new depth is left as it was
pushRecordKeepList(l) ==
    LET l1 == [l EXCEPT !.buf = Cat(l.buf, <<123>>)]
    IN  IF l1.depth = FrameWidth - 1
        THEN LineWriter(l1.buf, 0, {0}, {}, <<l1>>, l1.encoder)
        ELSE [l1 EXCEPT !.depth = l1.depth + 1,
                        !.isFirstEntry = l1.isFirstEntry \cup Bit(l1.depth + 1)]

\* the part of StartRecord after appendKey
pushRecord(l) ==
    LET l1 == [l EXCEPT !.buf = Cat(l.buf, <<123>>)]
    IN  IF l1.depth = FrameWidth - 1
        THEN LineWriter(l1.buf, 0, {0}, {}, <<l1>>, l1.encoder)
        ELSE [l1 EXCEPT !.depth = l1.depth + 1,
                        !.isFirstEntry = l1.isFirstEntry \cup Bit(l1.depth + 1),
                        !.isArray = l1.isArray \ Bit(l1.depth + 1)]

StartRecord(l, ks, key) ==
    LET a == appendKey(l, ks, key)
    IN  IF a.panic THEN a ELSE Ok(pushRecord(a.l))

\* mutant of pushList: the depth is not tested against the frame width
pushListNoOverflow(l) ==
    LET l1 == [l EXCEPT !.buf = Cat(l.buf, <<91>>)]
    IN  [l1 EXCEPT !.depth = l1.depth + 1,
                   !.isFirstEntry = l1.isFirstEntry \cup Bit(l1.depth + 1),
                   !.isArray = l1.isArray \cup Bit(l1.depth + 1)]

\* the part of StartList after appendKey: the new frame names no encoder
pushList(l) ==
    LET l1 == [l EXCEPT !.buf = Cat(l.buf, <<91>>)]
    IN  IF l1.depth = FrameWidth - 1
        THEN LineWriter(l1.buf, 0, {0}, {0}, <<l1>>, Nil)
        ELSE [l1 EXCEPT !.depth = l1.depth + 1,
                        !.isFirstEntry = l1.isFirstEntry \cup Bit(l1.depth + 1),
                        !.isArray = l1.isArray \cup Bit(l1.depth + 1)]

StartList(l, ks, key) ==
    LET a == appendKey(l, ks, key)
    IN  IF a.panic THEN a ELSE Ok(pushList(a.l))

\* mutant of popFrame: without a parent frame the call goes on at depth -1
popFrameNoPanic(l) ==
    LET l1 == [l EXCEPT !.depth = l.depth - 1]
    IN  IF l1.depth = -1 /\ Len(l1.parent) > 0
        THEN Ok([l1.parent[1] EXCEPT !.buf = l1.buf])
        ELSE Ok(l1)

\* mutant of popFrame: the resumed scope's first entry is pending again
popFrameFirstAgain(l) ==
    LET l1 == [l EXCEPT !.depth = l.depth - 1]
    IN  IF l1.depth = -1
        THEN IF Len(l1.parent) = 0 THEN Panic(l1)
             ELSE Ok([l1.parent[1] EXCEPT !.buf = l1.buf,
                                          !.isFirstEntry = @ \cup Bit(l1.parent[1].depth)])
        ELSE Ok(l1)

\* mutant of popFrame: the parent frame is resumed with the buffer it had
popFrameKeepBuf(l) ==
    LET l1 == [l EXCEPT !.depth = l.depth - 1]
    IN  IF l1.depth = -1
        THEN IF Len(l1.parent) = 0 THEN Panic(l1)
             ELSE Ok(l1.parent[1])
        ELSE Ok(l1)

\* l.depth--, and at -1 the parent frame is resumed with the child's buffer;
\* parent.buf panics when there is no parent
popFrame(l) ==
    LET l1 == [l EXCEPT !.depth = l.depth - 1]
    IN  IF l1.depth = -1
        THEN IF Len(l1.parent) = 0 THEN Panic(l1)
             ELSE Ok([l1.parent[1] EXCEPT !.buf = l1.buf])
        ELSE Ok(l1)

EndRecord(l) ==
    LET a == popFrame(l)
    IN  IF a.panic THEN a ELSE Ok([a.l EXCEPT !.buf = Cat(a.l.buf, <<125>>)])

EndList(l) ==
    LET a == popFrame(l)
    IN  IF a.panic THEN a ELSE Ok([a.l EXCEPT !.buf = Cat(a.l.buf, <<93>>)])

\* AddString, AddInt64, AddUint64, AddBool, AddFloat64: appendKey, then the token
AddString(l, ks, key, value) ==
    LET a == appendKey(l, ks, key)
    IN  IF a.panic THEN a ELSE Ok([a.l EXCEPT !.buf = AppendString(a.l.buf, value)])

AddInt64(l, ks, key, value) ==
    LET a == appendKey(l, ks, key)
    IN  IF a.panic THEN a ELSE Ok([a.l EXCEPT !.buf = AppendInt64(a.l.buf, value)])

AddUint64(l, ks, key, value) ==
    LET a == appendKey(l, ks, key)
    IN  IF a.panic THEN a ELSE Ok([a.l EXCEPT !.buf = AppendUint64(a.l.buf, value)])

AddBool(l, ks, key, value) ==
    LET a == appendKey(l, ks, key)
    IN  IF a.panic THEN a ELSE Ok([a.l EXCEPT !.buf = AppendBool(a.l.buf, value)])

AddFloat64(l, ks, key, value) ==
    LET a == appendKey(l, ks, key)
    IN  IF a.panic THEN a ELSE Ok([a.l EXCEPT !.buf = AppendFloat64(a.l.buf, value)])

\* mutants of restoreBuf: the buffer is left as it is; the buffer is emptied
restoreBufKeep(l, orig) == l

restoreBufEmpty(l, orig) == [l EXCEPT !.buf = <<>>]

\* on an error l.buf = orig: the slice as it was before appendKey
restoreBuf(l, orig) == [l EXCEPT !.buf = orig]

\* AddTime and AddMarshal also yield the error returned (Nil: none)
AddTime(l, ks, key, value) ==
    LET orig == l.buf
        a == appendKey(l, ks, key)
        r == AppendTime(a.l.buf, value)
    IN  IF a.panic THEN [l |-> a.l, panic |-> TRUE, err |-> Nil]
        ELSE IF r.err # Nil
        THEN [l |-> restoreBuf(a.l, orig), panic |-> FALSE, err |-> r.err]
        ELSE [l |-> [a.l EXCEPT !.buf = r.buf], panic |-> FALSE, err |-> Nil]

AddMarshal(l, ks, key, value) ==
    LET orig == l.buf
        a == appendKey(l, ks, key)
        r == AppendMarshal(a.l.buf, value)
    IN  IF a.panic THEN [l |-> a.l, panic |-> TRUE, err |-> Nil]
        ELSE IF r.err # Nil
        THEN [l |-> restoreBuf(a.l, orig), panic |-> FALSE, err |-> r.err]
        ELSE [l |-> [a.l EXCEPT !.buf = r.buf], panic |-> FALSE, err |-> Nil]

\* Encoder.NewLine after the pool's Get: the '{' and the first-entry bit of
\* depth 0; nothing else of a recycled writer is touched
NewLine(l) == [l EXCEPT !.buf = Cat(l.buf, <<123>>), !.isFirstEntry = {0}]

\* mutant of endLine: the line terminator is left out
endLineNoTerminator(l) == [l EXCEPT !.buf = Cat(l.buf, <<125>>)]

\* LineWriter.End up to the Write: the closing '}' and the line terminator
endLine(l) == [l EXCEPT !.buf = Cat(l.buf, <<125, 10>>)]

\* mutant of resetBuf: the buffer keeps its first byte
resetBufKeepBrace(l) == [l EXCEPT !.buf = SubSeq(l.buf, 1, 1)]

\* mutant of resetBuf: the buffer keeps the line
resetBufKeep(l) == l

\* l.buf = l.buf[:0]
resetBuf(l) == [l EXCEPT !.buf = <<>>]

(***************************************************************************)
(* The reference writer the claims compare with: an explicit, unbounded    *)
(* stack of scopes, each its kind and the number of its entries; keys are  *)
(* always escaped afresh.  ok: every End* so far closed an open inner      *)
(* scope of its own kind; failed: a fallible add returned an error.        *)
(***************************************************************************)
RefScope(list) == [list |-> list, n |-> 0]

RefInit == [buf |-> <<123>>, stack |-> <<RefScope(FALSE)>>, ok |-> TRUE,
            failed |-> FALSE, maxd |-> 0]

RefTop(r) == r.stack[Len(r.stack)]

RefDepth(r) == Len(r.stack) - 1

\* what precedes the value of an entry: the comma and, in a record, the key
RefLead(r, key) ==
    (IF RefTop(r).n > 0 THEN <<44>> ELSE <<>>)
    \o (IF RefTop(r).list THEN <<>> ELSE Cat(AppendString(<<>>, key.s), <<58>>))

RefEntry(r, key, tok) ==
    [r EXCEPT !.buf = r.buf \o RefLead(r, key) \o tok,
              !.stack[Len(r.stack)].n = RefTop(r).n + 1]

RefPush(r, key, list) ==
    LET e == RefEntry(r, key, IF list THEN <<91>> ELSE <<123>>)
    IN  [e EXCEPT !.stack = Append(e.stack, RefScope(list)),
                  !.maxd = Max(e.maxd, Len(e.stack))]

RefPop(r, list) ==
    IF Len(r.stack) = 1 THEN [r EXCEPT !.ok = FALSE]
    ELSE [r EXCEPT !.buf = Cat(r.buf, IF RefTop(r).list THEN <<93>> ELSE <<125>>),
                   !.stack = SubSeq(r.stack, 1, Len(r.stack) - 1),
                   !.ok = r.ok /\ RefTop(r).list = list]

RefFail(r) == [r EXCEPT !.failed = TRUE]

RefLine(r) == Cat(r.buf, <<125, 10>>)

RefBalanced(r) == r.ok /\ Len(r.stack) = 1

(***************************************************************************)
(* The inputs the callers draw from.                                       *)
(***************************************************************************)
Callers == 1..NumCallers
WriterIds == 1..MaxWriters

\* "a", and a key that needs escaping: a single '"'
\* the addresses strings live at: 1 and 2 hold the constants "a" and "\"",
\* 3 is where the program builds strings while it runs
Addrs == {1, 2, 3}
DynAddrs == {3}
StaticHeap == [a \in Addrs |-> IF a = 1 THEN <<97>> ELSE IF a = 2 THEN <<34>> ELSE <<>>]
\* the strings built at run time: "ab" and "cd"
DynStrings == {<<97, 98>>, <<99, 100>>}

KeyA == Str(1, <<97>>)
KeyQ == Str(2, <<34>>)
Keys == {KeyA, KeyQ}

StringValues == {<<120>>}
Int64Values == {-1}
Uint64Values == {7}
BoolValues == {TRUE}
FloatValues == {Float("fin", FALSE, <<1, 5>>, 1)}

Time(year, month, day, hour, min, sec, nsec, offset) ==
    [year |-> year, month |-> month, day |-> day, hour |-> hour, min |-> min,
     sec |-> sec, nsec |-> nsec, offset |-> offset]

\* baseTime of the tests, and the same wall clock in the year -1
ValidTime == Time(2023, 6, 12, 20, 42, 15, 152952812, 0)
InvalidTime == Time(-1, 6, 12, 20, 42, 15, 152952812, 0)
TimeValues == {ValidTime, InvalidTime}

Point(x, y) == [kind |-> "Point", x |-> x, y |-> y]
ErrorMarshalValue == [kind |-> "ErrorMarshal"]
MarshalValues == {Point(1, 2), ErrorMarshalValue}

ErrSink == "sink failed"
\* what the sink's Write returns
SinkErrs == {Nil, ErrSink}

(***************************************************************************)
(* The state.                                                              *)
(*   keys       the Encoder's keyStore                                     *)
(*   lw         the LineWriter objects; allocated: those that exist        *)
(*   pool       the writers in the Encoder's sync.Pool                     *)
(*   held       the writer each caller holds (0: none)                     *)
(*   panicked   the callers an operation panicked in                       *)
(*   sink       the Write calls the Encoder's sink received, in order      *)
(* and, for stating the claims:                                            *)
(*   ref        per writer, the reference writer fed the same calls        *)
(*   shadow     per writer, a LineWriter fed the same calls but for the    *)
(*              fallible adds that returned an error                       *)
(*   last       the last call made and what it returned                    *)
(*   ncalls     the calls made so far, PrepareKey aside                    *)
(*   plan       the deep-nesting caller's position in its program          *)
(***************************************************************************)
VARIABLES keys, lw, allocated, pool, held, panicked, sink,
          ref, shadow, last, ncalls, plan, heap, nkeyops, tcall, stores,
          static

vars == <<keys, lw, allocated, pool, held, panicked, sink,
         ref, shadow, last, ncalls, plan, heap, nkeyops, tcall, stores, static>>

\* what a specification's own driver holds
driver == <<plan, heap, nkeyops, tcall, stores, static>>

NoCall == [c |-> 0, w |-> 0, op |-> "none", key |-> <<>>, tok |-> <<>>,
           err |-> Nil, panic |-> FALSE]

Call(c, w, op, key, tok, err, panic) ==
    [c |-> c, w |-> w, op |-> op, key |-> key, tok |-> tok, err |-> err,
     panic |-> panic]

InitEncoder ==
    /\ keys = NilKeyStore
    /\ lw = [w \in WriterIds |-> NewLineWriter]
    /\ allocated = {}
    /\ pool = {}
    /\ held = [c \in Callers |-> 0]
    /\ panicked = [c \in Callers |-> FALSE]
    /\ sink = <<>>
    /\ ref = [w \in WriterIds |-> RefInit]
    /\ shadow = [w \in WriterIds |-> NewLineWriter]
    /\ last = NoCall
    /\ ncalls = 0

NoPlan == [phase |-> "none", list |-> FALSE, lead |-> FALSE, target |-> 0,
           nfree |-> 0, line |-> 0, bal |-> TRUE, hist |-> <<>>]

\* stores holds key stores of their own, an original and its clone: the
\* maps that make has allocated, and for each store the map its keys field
\* points to, 0 for nil; op is the last call made on them
NoStores == [maps |-> <<>>, orig |-> 0, clone |-> 0, cloned |-> FALSE, op |-> "none"]

\* static holds what NewStaticFields has made: the writer it returned (0
\* before the call), the pool of the Encoder made for that writer, and the
\* StaticFields, whose buf is the first n bytes of the array arr that the
\* writer's buffer had when End passed it to Write; done says End was called
NoStatic == [w |-> 0, pool |-> {}, arr |-> <<>>, n |-> 0, done |-> FALSE]

\* tcall is the last call of a function of package tokens made on its own:
\* the function, the buffer and the value it was given, what it returned
NoTok == [fn |-> "none", buf |-> <<>>, arg |-> <<>>, out |-> <<>>, err |-> Nil]

Init ==
    /\ InitEncoder
    /\ plan = NoPlan /\ heap = StaticHeap /\ nkeyops = 0 /\ tcall = NoTok
    /\ stores = NoStores /\ static = NoStatic

Building(c) == held[c] # 0 /\ ~panicked[c]

(***************************************************************************)
(* Encoder.PrepareKey and Encoder.NewLine.                                 *)
(***************************************************************************)
PrepareKey(key) ==
    /\ keys' = keyStorePut(keys, key)
    /\ last' = Call(0, 0, "PrepareKey", key.s, <<>>, Nil, FALSE)
    /\ UNCHANGED <<lw, allocated, pool, held, panicked, sink, ref, shadow, ncalls>>

\* mutant of poolGet: the writer handed out stays in the pool
poolGetKeep(p, w) == p

\* e.p.Get(): a writer of the pool, which leaves it, or nil
poolGet(p, w) == p \ {w}

\* e.p.Put(l)
poolPut(p, w) == p \cup {w}

\* NewLine on writer w: one the pool hands out, or a newly allocated one
NewLineOn(c, w) ==
    /\ held[c] = 0
    /\ ~panicked[c]
    /\ \/ /\ w \in pool
          /\ pool' = poolGet(pool, w)
          /\ allocated' = allocated
          /\ lw' = [lw EXCEPT ![w] = NewLine(lw[w])]
       \/ /\ w \notin allocated
          /\ \A v \in WriterIds \ allocated : w <= v
          /\ pool' = pool
          /\ allocated' = allocated \cup {w}
          /\ lw' = [lw EXCEPT ![w] = NewLine(NewLineWriter)]
    /\ held' = [held EXCEPT ![c] = w]
    /\ ref' = [ref EXCEPT ![w] = RefInit]
    /\ shadow' = [shadow EXCEPT ![w] = lw'[w]]
    /\ last' = Call(c, w, "NewLine", <<>>, <<>>, Nil, FALSE)
    /\ ncalls' = ncalls + 1
    /\ UNCHANGED <<keys, panicked, sink>>

(***************************************************************************)
(* The calls on a held writer.  res is what the operation yields, err the  *)
(* error it returns, newref the reference writer after the same call and   *)
(* sres what the operation yields on the shadow writer.                    *)
(***************************************************************************)
\* mutant of Apply: a key looked up is stored in the cache
ApplyCaching(c, op, key, tok, res, err, newref, sres) ==
    /\ lw' = [lw EXCEPT ![held[c]] = res.l]
    /\ panicked' = [panicked EXCEPT ![c] = res.panic]
    /\ ref' = [ref EXCEPT ![held[c]] = IF res.panic THEN @ ELSE newref]
    /\ shadow' = [shadow EXCEPT ![held[c]] =
                     IF res.panic \/ err # Nil THEN @ ELSE sres.l]
    /\ last' = Call(c, held[c], op, key, tok, err, res.panic)
    /\ ncalls' = ncalls + 1
    /\ keys' = keyStorePut(keys, Str(1, key))
    /\ UNCHANGED <<allocated, pool, held, sink>>

Apply(c, op, key, tok, res, err, newref, sres) ==
    /\ lw' = [lw EXCEPT ![held[c]] = res.l]
    /\ panicked' = [panicked EXCEPT ![c] = res.panic]
    /\ ref' = [ref EXCEPT ![held[c]] = IF res.panic THEN @ ELSE newref]
    /\ shadow' = [shadow EXCEPT ![held[c]] =
                     IF res.panic \/ err # Nil THEN @ ELSE sres.l]
    /\ last' = Call(c, held[c], op, key, tok, err, res.panic)
    /\ ncalls' = ncalls + 1
    /\ UNCHANGED <<keys, allocated, pool, held, sink>>

AddStringStep(c, key, value) ==
    /\ Building(c)
    /\ LET tok == AppendString(<<>>, value)
       IN  Apply(c, "AddString", key.s, tok, AddString(lw[held[c]], keys, key, value),
                 Nil, RefEntry(ref[held[c]], key, tok),
                 AddString(shadow[held[c]], keys, key, value))

AddInt64Step(c, key, value) ==
    /\ Building(c)
    /\ LET tok == AppendInt64(<<>>, value)
       IN  Apply(c, "AddInt64", key.s, tok, AddInt64(lw[held[c]], keys, key, value),
                 Nil, RefEntry(ref[held[c]], key, tok),
                 AddInt64(shadow[held[c]], keys, key, value))

AddUint64Step(c, key, value) ==
    /\ Building(c)
    /\ LET tok == AppendUint64(<<>>, value)
       IN  Apply(c, "AddUint64", key.s, tok, AddUint64(lw[held[c]], keys, key, value),
                 Nil, RefEntry(ref[held[c]], key, tok),
                 AddUint64(shadow[held[c]], keys, key, value))

AddBoolStep(c, key, value) ==
    /\ Building(c)
    /\ LET tok == AppendBool(<<>>, value)
       IN  Apply(c, "AddBool", key.s, tok, AddBool(lw[held[c]], keys, key, value),
                 Nil, RefEntry(ref[held[c]], key, tok),
                 AddBool(shadow[held[c]], keys, key, value))

AddFloat64Step(c, key, value) ==
    /\ Building(c)
    /\ LET tok == AppendFloat64(<<>>, value)
       IN  Apply(c, "AddFloat64", key.s, tok, AddFloat64(lw[held[c]], keys, key, value),
                 Nil, RefEntry(ref[held[c]], key, tok),
                 AddFloat64(shadow[held[c]], keys, key, value))

AddTimeStep(c, key, value) ==
    /\ Building(c)
    /\ LET r == AddTime(lw[held[c]], keys, key, value)
           tok == AppendTime(<<>>, value).buf
       IN  Apply(c, "AddTime", key.s, tok, [l |-> r.l, panic |-> r.panic], r.err,
                 IF r.err # Nil THEN RefFail(ref[held[c]])
                 ELSE RefEntry(ref[held[c]], key, tok),
                 AddTime(shadow[held[c]], keys, key, value))

AddMarshalStep(c, key, value) ==
    /\ Building(c)
    /\ LET r == AddMarshal(lw[held[c]], keys, key, value)
           tok == AppendMarshal(<<>>, value).buf
       IN  Apply(c, "AddMarshal", key.s, tok, [l |-> r.l, panic |-> r.panic], r.err,
                 IF r.err # Nil THEN RefFail(ref[held[c]])
                 ELSE RefEntry(ref[held[c]], key, tok),
                 AddMarshal(shadow[held[c]], keys, key, value))

StartRecordStep(c, key) ==
    /\ Building(c)
    /\ Apply(c, "StartRecord", key.s, <<123>>, StartRecord(lw[held[c]], keys, key),
             Nil, RefPush(ref[held[c]], key, FALSE),
             StartRecord(shadow[held[c]], keys, key))

StartListStep(c, key) ==
    /\ Building(c)
    /\ Apply(c, "StartList", key.s, <<91>>, StartList(lw[held[c]], keys, key),
             Nil, RefPush(ref[held[c]], key, TRUE),
             StartList(shadow[held[c]], keys, key))

EndRecordStep(c) ==
    /\ Building(c)
    /\ Apply(c, "EndRecord", <<>>, <<125>>, EndRecord(lw[held[c]]),
             Nil, RefPop(ref[held[c]], FALSE), EndRecord(shadow[held[c]]))

EndListStep(c) ==
    /\ Building(c)
    /\ Apply(c, "EndList", <<>>, <<93>>, EndList(lw[held[c]]),
             Nil, RefPop(ref[held[c]], TRUE), EndList(shadow[held[c]]))

(***************************************************************************)
(* LineWriter.End.  The sink's Write returns werr.  Each Write is recorded *)
(* with the reference writer's and the shadow writer's line.               *)
(***************************************************************************)
SinkWrite(w, data, err, r, sh) ==
    [w |-> w, data |-> data, err |-> err, want |-> RefLine(r),
     balanced |-> RefBalanced(r), failed |-> r.failed, maxd |-> r.maxd,
     clean |-> endLine(sh).buf]

EndStep(c, werr) ==
    /\ Building(c)
    /\ LET w == held[c]
           l1 == endLine(lw[w])
       IN  IF l1.encoder = Nil
           THEN \* l.encoder.w panics
                /\ lw' = [lw EXCEPT ![w] = l1]
                /\ panicked' = [panicked EXCEPT ![c] = TRUE]
                /\ last' = Call(c, w, "End", <<>>, <<>>, Nil, TRUE)
                /\ UNCHANGED <<sink, pool, held>>
           ELSE /\ sink' = Append(sink, SinkWrite(w, l1.buf, werr, ref[w], shadow[w]))
                /\ lw' = [lw EXCEPT ![w] = resetBuf(l1)]
                /\ pool' = poolPut(pool, w)
                /\ held' = [held EXCEPT ![c] = 0]
                /\ last' = Call(c, w, "End", <<>>, <<>>, werr, FALSE)
                /\ UNCHANGED panicked
    /\ ncalls' = ncalls + 1
    /\ UNCHANGED <<keys, allocated, ref, shadow>>

(***************************************************************************)
(* Spec: one caller builds lines on an Encoder, one line after the other,  *)
(* with any calls, at most MaxCalls in a run.  The caller keeps to what    *)
(* the documentation says it MUST: keys are prepared before the first      *)
(* NewLine, and End is called when every Start* has had its End*.          *)
(***************************************************************************)
CanCall == ncalls < MaxCalls

\* as many End* as Start* calls were made on c's writer
AllEnded(c) == held[c] # 0 /\ RefDepth(ref[held[c]]) = 0

Next ==
    \/ \E k \in Keys : ncalls = 0 /\ PrepareKey(k) /\ UNCHANGED driver
    \/ \E w \in WriterIds : CanCall /\ NewLineOn(1, w) /\ UNCHANGED driver
    \/ \E k \in Keys, v \in StringValues :
          CanCall /\ AddStringStep(1, k, v) /\ UNCHANGED driver
    \/ \E v \in Int64Values : CanCall /\ AddInt64Step(1, KeyA, v) /\ UNCHANGED driver
    \/ \E v \in Uint64Values : CanCall /\ AddUint64Step(1, KeyA, v) /\ UNCHANGED driver
    \/ \E v \in BoolValues : CanCall /\ AddBoolStep(1, KeyA, v) /\ UNCHANGED driver
    \/ \E v \in FloatValues : CanCall /\ AddFloat64Step(1, KeyA, v) /\ UNCHANGED driver
    \/ \E v \in TimeValues : CanCall /\ AddTimeStep(1, KeyA, v) /\ UNCHANGED driver
    \/ \E v \in MarshalValues : CanCall /\ AddMarshalStep(1, KeyA, v) /\ UNCHANGED driver
    \/ \E k \in Keys : CanCall /\ StartRecordStep(1, k) /\ UNCHANGED driver
    \/ CanCall /\ StartListStep(1, KeyA) /\ UNCHANGED driver
    \/ CanCall /\ EndRecordStep(1) /\ UNCHANGED driver
    \/ CanCall /\ EndListStep(1) /\ UNCHANGED driver
    \/ \E e \in SinkErrs : CanCall /\ AllEnded(1) /\ EndStep(1, e) /\ UNCHANGED driver

Spec == Init /\ [][Next]_vars

(***************************************************************************)
(* The claims checked under Spec.                                          *)
(***************************************************************************)
FallibleOps == {"AddTime", "AddMarshal"}
EntryOps == {"AddString", "AddInt64", "AddUint64", "AddBool", "AddFloat64",
             "AddTime", "AddMarshal", "StartRecord", "StartList"}

\* the last call was a fallible add that returned an error
FailedAdd(call) == call.op \in FallibleOps /\ call.err # Nil /\ ~call.panic

\* the last call added an entry
AddedEntry(call) == call.op \in EntryOps /\ call.err = Nil /\ ~call.panic

\* C1: a failed AddTime or AddMarshal leaves the writer as if the call had
\* not been made: every line written is the line the same calls without the
\* failed ones produce (the shadow writer's), and when the calls are balanced
\* and type-matched it is the reference writer's well-formed line.
C1_FailedAddLeavesNoTrace ==
    \A i \in 1..Len(sink) :
        /\ sink[i].data = sink[i].clean
        /\ sink[i].balanced => sink[i].data = sink[i].want

\* C2: when AddTime or AddMarshal returns an error, the writer's buffer after
\* the call is the buffer before the call.
C2_FailedAddRestoresBuffer ==
    [][FailedAdd(last') => lw'[last'.w].buf = lw[last'.w].buf]_vars

\* a fallible add failed in a scope that already holds an entry
C2_Witness ==
    /\ FailedAdd(last)
    /\ RefTop(ref[last.w]).n > 0
    /\ Len(lw[last.w].buf) > 1

\* C3: a balanced, type-matched line nested less than FrameWidth deep, whose
\* fallible adds all succeeded, is written as the reference writer's line.
C3_LineIsReferenceLine ==
    \A i \in 1..Len(sink) :
        (sink[i].balanced /\ ~sink[i].failed /\ sink[i].maxd < FrameWidth)
            => sink[i].data = sink[i].want

\* a line with an inner scope that holds an entry was written
C3_Witness ==
    \E i \in 1..Len(sink) :
        /\ sink[i].balanced /\ ~sink[i].failed
        /\ sink[i].maxd >= 1
        /\ Len(sink[i].data) >= 12
        /\ sink[i].data = sink[i].want

\* C6: End returns the error the sink's Write returned, after one Write, and
\* whatever that error the buffer is reset to length 0 and the writer is put
\* in the pool.
C6_EndReturnsSinkError ==
    [][(last'.op = "End" /\ ~last'.panic) =>
          /\ Len(sink') = Len(sink) + 1
          /\ last'.err = sink'[Len(sink')].err
          /\ lw'[last'.w].buf = <<>>
          /\ last'.w \in pool'
          /\ held'[last'.c] = 0]_vars

\* End returned the sink's error and the writer is in the pool
C6_Witness ==
    /\ last.op = "End" /\ last.err = ErrSink
    /\ last.w \in pool
    /\ Len(sink) > 0 /\ sink[Len(sink)].err = ErrSink

\* C7: between NewLine and End the buffer only grows at its end (a failed
\* fallible add leaves it as it was), and a successful Add* or Start* leaves
\* its value at the end of the buffer: entries stand in call order.
C7_BufferAppendOnly ==
    [][\A w \in WriterIds :
          (w \in allocated /\ w \notin pool /\ w \notin pool') =>
              /\ IsPrefix(lw[w].buf, lw'[w].buf)
              /\ (AddedEntry(last') /\ last'.w = w) =>
                    lw'[w].buf = Cat(SubSeq(lw'[w].buf, 1,
                                            Len(lw'[w].buf) - Len(last'.tok)),
                                     last'.tok)]_vars

\* an entry was added after a failed add and an earlier entry
C7_Witness ==
    /\ AddedEntry(last)
    /\ ref[last.w].failed
    /\ RefTop(ref[last.w]).n >= 2

\* C10: an entry's bytes are the comma, when it is not the first entry of its
\* scope, the escaped key and ':' when the scope is a record, and the value.
C10_SeparatorAndKey ==
    [][AddedEntry(last') =>
          lw'[last'.w].buf = lw[last'.w].buf
                               \o RefLead(ref[last'.w], [s |-> last'.key])
                               \o last'.tok]_vars

(***************************************************************************)
(* SpecConc: NumCallers goroutines share the Encoder.  Each runs NewLine,  *)
(* some calls on the writer it was handed, then End, and does not touch    *)
(* the writer after End.  sync.Pool's Get and Put are atomic, Put is the   *)
(* last statement of End and Get the first of NewLine, and the calls in    *)
(* between touch the caller's writer only, so the calls interleave whole.  *)
(***************************************************************************)
NextConc ==
    \/ \E c \in Callers, w \in WriterIds :
          CanCall /\ NewLineOn(c, w) /\ UNCHANGED driver
    \/ \E c \in Callers, v \in Int64Values :
          CanCall /\ AddInt64Step(c, KeyA, v) /\ UNCHANGED driver
    \/ \E c \in Callers : CanCall /\ StartRecordStep(c, KeyA) /\ UNCHANGED driver
    \/ \E c \in Callers : CanCall /\ EndRecordStep(c) /\ UNCHANGED driver
    \/ \E c \in Callers, e \in SinkErrs :
          CanCall /\ AllEnded(c) /\ EndStep(c, e) /\ UNCHANGED driver

SpecConc == Init /\ [][NextConc]_vars

\* C8: no writer is held by two callers at once, a held writer is not in the
\* pool, a writer enters the pool only through its End and leaves it only
\* through a NewLine, which hands it to the one caller of that NewLine.
C8_OneHolderPerWriter ==
    /\ [](\A c \in Callers :
             held[c] # 0 =>
                 /\ held[c] \notin pool
                 /\ \A d \in Callers \ {c} : held[d] # held[c])
    /\ [][\A w \in WriterIds :
             /\ (w \in pool' /\ w \notin pool) =>
                    /\ last'.op = "End" /\ last'.w = w
                    /\ held[last'.c] = w /\ held'[last'.c] = 0
             /\ (w \in pool /\ w \notin pool') =>
                    /\ last'.op = "NewLine" /\ last'.w = w
                    /\ held[last'.c] = 0 /\ held'[last'.c] = w]_vars

\* two callers hold writers, one of them a writer that went through the pool
C8_Witness ==
    /\ held[1] # 0 /\ held[2] # 0
    /\ Len(sink) >= 1
    /\ \E c \in Callers : held[c] = sink[1].w

\* C9: End makes one Write, of the whole line: the buffer since NewLine,
\* which starts with '{', then '}' and one line terminator; no other call
\* writes to the sink, and the earlier writes stay as they were.
C9_OneWritePerLine ==
    [][IF last'.op = "End" /\ last' # last
       THEN /\ Len(sink') = Len(sink) + 1
            /\ SubSeq(sink', 1, Len(sink)) = sink
            /\ LET data == sink'[Len(sink')].data
               IN  /\ data = Cat(lw[last'.w].buf, <<125, 10>>)
                   /\ Head(data) = 123
                   /\ \A i \in 1..(Len(data) - 1) : data[i] # 10
       ELSE sink' = sink]_vars

\* two callers built their lines at the same time and each was written whole
C9_Witness ==
    /\ Len(sink) = 2
    /\ sink[1].w # sink[2].w
    /\ \E i \in 1..2 : Len(sink[i].data) > 3
    /\ \A i \in 1..2 : sink[i].data = sink[i].want

(***************************************************************************)
(* SpecDeep: one caller nests records in records, or lists in lists, past  *)
(* twice the frame width, closes the scopes again and adds a scalar entry  *)
(* after each closed scope.  plan holds the caller's position: the kind of *)
(* scope it nests (list), whether it adds an entry to a scope before it    *)
(* opens the inner one (lead), and its phase: down, add, up, done.         *)
(***************************************************************************)
DeepMax == 2 * FrameWidth + MaxOver

DeepDepth == RefDepth(ref[held[1]])

\* the caller may open the next inner scope
DeepMayStart ==
    /\ plan.phase = "down"
    /\ held[1] # 0
    /\ DeepDepth < DeepMax
    /\ plan.lead => RefTop(ref[held[1]]).n > 0

\* the caller may close the scope it is in
DeepMayEnd ==
    /\ held[1] # 0
    /\ DeepDepth > 0
    /\ \/ plan.phase = "up"
       \/ /\ plan.phase = "down"
          /\ DeepDepth >= 2 * FrameWidth
          /\ plan.lead => RefTop(ref[held[1]]).n > 0

NextDeep ==
    \/ \E w \in WriterIds, li \in BOOLEAN, ld \in BOOLEAN :
          /\ plan.phase = "none"
          /\ NewLineOn(1, w)
          /\ plan' = [plan EXCEPT !.phase = "down", !.list = li, !.lead = ld]
          /\ UNCHANGED <<heap, nkeyops, tcall, stores, static>>
    \/ \E v \in Int64Values :
          /\ plan.phase = "down" /\ plan.lead
          /\ held[1] # 0 /\ RefTop(ref[held[1]]).n = 0
          /\ AddInt64Step(1, KeyA, v)
          /\ UNCHANGED driver
    \/ DeepMayStart /\ plan.list /\ StartListStep(1, KeyA) /\ UNCHANGED driver
    \/ DeepMayStart /\ ~plan.list /\ StartRecordStep(1, KeyA) /\ UNCHANGED driver
    \/ /\ DeepMayEnd /\ plan.list
       /\ EndListStep(1)
       /\ plan' = [plan EXCEPT !.phase = "add"]
       /\ UNCHANGED <<heap, nkeyops, tcall, stores, static>>
    \/ /\ DeepMayEnd /\ ~plan.list
       /\ EndRecordStep(1)
       /\ plan' = [plan EXCEPT !.phase = "add"]
       /\ UNCHANGED <<heap, nkeyops, tcall, stores, static>>
    \/ \E v \in Int64Values :
          /\ plan.phase = "add"
          /\ AddInt64Step(1, KeyA, v)
          /\ plan' = [plan EXCEPT !.phase = "up"]
          /\ UNCHANGED <<heap, nkeyops, tcall, stores, static>>
    \/ \E e \in SinkErrs :
          /\ plan.phase = "up" /\ AllEnded(1)
          /\ EndStep(1, e)
          /\ plan' = [plan EXCEPT !.phase = "done"]
          /\ UNCHANGED <<heap, nkeyops, tcall, stores, static>>

SpecDeep == Init /\ [][NextDeep]_vars

\* C4: a line of records in records, or of lists in lists, nested to twice
\* the frame width or deeper, with an entry added after each closed scope,
\* is written as the reference writer's line: every scope closed by its
\* bracket in reverse order, one comma before the entry after a closed scope.
C4_DeepNestingIsReferenceLine ==
    \A i \in 1..Len(sink) :
        (sink[i].balanced /\ sink[i].maxd >= 2 * FrameWidth) =>
            /\ sink[i].data = sink[i].want
            /\ ~panicked[1]

\* a line of lists nested past twice the frame width was written
C4_Witness ==
    /\ plan.phase = "done" /\ plan.list
    /\ Len(sink) = 1
    /\ sink[1].balanced /\ sink[1].maxd > 2 * FrameWidth
    /\ sink[1].data = sink[1].want

(***************************************************************************)
(* SpecKeys: the keys are strings of the heap.  The key store keeps a      *)
(* string's address as a uintptr, which does not keep the string alive:    *)
(* once the program has dropped a string it built, the allocator may build *)
(* the next string at the same address.  Keys are prepared before the      *)
(* first NewLine; a key passed to a call is a live string or a prefix of   *)
(* one, which shares its address.                                          *)
(***************************************************************************)
\* the strings a call can be given: a live string, or a prefix s[:n] of one
LiveKeys ==
    UNION {{Str(a, SubSeq(heap[a], 1, n)) : n \in 1..Len(heap[a])} : a \in Addrs}

CanKeyOp == nkeyops < MaxKeyOps

\* the program builds the string s; the allocator places it at address a,
\* free or held by a string the program has dropped
KsAlloc(a, s) ==
    /\ heap[a] # s
    /\ heap' = [heap EXCEPT ![a] = s]
    /\ nkeyops' = nkeyops + 1
    /\ UNCHANGED <<keys, lw, allocated, pool, held, panicked, sink,
                   ref, shadow, last, ncalls, plan, tcall, stores, static>>

NextKeys ==
    \/ \E a \in DynAddrs, s \in DynStrings : CanKeyOp /\ KsAlloc(a, s)
    \/ \E k \in LiveKeys :
          /\ CanKeyOp /\ ncalls = 0
          /\ PrepareKey(k)
          /\ nkeyops' = nkeyops + 1
          /\ UNCHANGED <<plan, heap, tcall, stores, static>>
    \/ \E w \in WriterIds : CanCall /\ NewLineOn(1, w) /\ UNCHANGED driver
    \/ \E k \in LiveKeys, v \in Int64Values :
          CanCall /\ AddInt64Step(1, k, v) /\ UNCHANGED driver
    \/ \E k \in LiveKeys : CanCall /\ StartRecordStep(1, k) /\ UNCHANGED driver
    \/ CanCall /\ EndRecordStep(1) /\ UNCHANGED driver
    \/ CanCall /\ AllEnded(1) /\ EndStep(1, Nil) /\ UNCHANGED driver

SpecKeys == Init /\ [][NextKeys]_vars

\* C5: with any keys prepared, a call emits for its key the bytes
\* tokens.AppendString gives for it, and the line written is the line of an
\* encoder without prepared keys (the reference writer's).
C5_PreparedKeysChangeNothing ==
    /\ \A i \in 1..Len(sink) : sink[i].balanced => sink[i].data = sink[i].want
    /\ AddedEntry(last) =>
          LET b == lw[last.w].buf
              entry == Cat(Cat(AppendString(<<>>, last.key), <<58>>), last.tok)
          IN  /\ Len(b) >= Len(entry)
              /\ SubSeq(b, Len(b) - Len(entry) + 1, Len(b)) = entry

(***************************************************************************)
(* Further claims checked under Spec.                                      *)
(***************************************************************************)
EndScopeOps == {"EndRecord", "EndList"}

\* C11: EndRecord or EndList called when only the outermost scope is open
\* (depth 0, no parent frame) panics, returns no error value and appends no
\* closing bracket to the buffer.
C11_EndOfRootPanics ==
    [][(/\ last'.op \in EndScopeOps
        /\ lw[last'.w].depth = 0
        /\ Len(lw[last'.w].parent) = 0) =>
          /\ last'.panic
          /\ panicked'[last'.c]
          /\ last'.err = Nil
          /\ lw'[last'.w].buf = lw[last'.w].buf]_vars

\* EndList panicked on a root record that holds an entry
C11_Witness ==
    /\ last.op = "EndList" /\ last.panic
    /\ panicked[last.c]
    /\ lw[last.w].depth = -1
    /\ Len(lw[last.w].buf) > 1

(***************************************************************************)
(* SpecTokens: the functions of package tokens, each called on its own     *)
(* with a buffer and a value of the sets below.                            *)
(***************************************************************************)
\* the buffers handed to the functions: empty, and an opened line
TokBufs == {<<>>, <<123, 34, 97, 34, 58>>}

\* the timestamps: the wall clock of baseTime in the years around the range
\* [0, 9999], with and without a fraction of a second, in UTC and in zones
\* two hours east and five and a half hours west of it
TimeYears == {-1, 0, 1, 2023, 9999, 10000}
TimeNanos == {0, 6, 152952812, 500000000}
TimeOffsets == {0, 7200, -19800}
TimeInputs ==
    {Time(y, 6, 12, 20, 42, 15, ns, off) :
        y \in TimeYears, ns \in TimeNanos, off \in TimeOffsets}

\* the floats: the three that are no numbers, zero, and decimals of one to
\* three digits from 1e-12 to 1e24, of either sign
FloatDigits == {<<1>>, <<1, 5>>, <<1, 2, 3>>}
FloatPoints == {-11, -8, -6, -5, 0, 1, 3, 21, 22, 25}
FloatInputs ==
    {Float(c, FALSE, <<>>, 0) : c \in {"+Inf", "-Inf", "NaN"}}
    \cup {Float("fin", neg, <<>>, 0) : neg \in BOOLEAN}
    \cup {Float("fin", neg, d, dp) :
             neg \in BOOLEAN, d \in FloatDigits, dp \in FloatPoints}

\* the bytes of the strings: tab, newline, carriage return, 0x1f, '"', '\',
\* '<', 'a', and bytes of multi-byte characters: e2 80 a8 is U+2028,
\* e2 80 a9 is U+2029, e2 80 80 is U+2000; 0x80 alone, e2 cut short and 0xff
\* are invalid UTF-8
StrBytes == {9, 10, 13, 31, 34, 92, 60, 97, 128, 168, 169, 226, 255}
StringInputs == UNION {[1..n -> StrBytes] : n \in 0..MaxStrLen}

\* the values given to AppendMarshal: Points, the value whose MarshalJSON
\* fails, and the strings "<>", "&" and "a"
StringValue(s) == [kind |-> "String", s |-> s]
MarshalInputs ==
    {Point(1, 2), Point(0, 10), ErrorMarshalValue,
     StringValue(<<60, 62>>), StringValue(<<38>>), StringValue(<<97>>)}

\* the Encoder and its writers, which the functions of tokens do not touch
program == <<keys, lw, allocated, pool, held, panicked, sink,
             ref, shadow, last, ncalls, plan, heap, nkeyops, stores, static>>

TokCall(fn, buf, arg, out, err) ==
    [fn |-> fn, buf |-> buf, arg |-> arg, out |-> out, err |-> err]

TokAppendTime(buf, value) ==
    /\ tcall' = LET r == AppendTime(buf, value)
              IN  TokCall("AppendTime", buf, value, r.buf, r.err)
    /\ UNCHANGED program

\* AddTime on a writer NewLine has just returned
TokAddTime(value) ==
    /\ tcall' = LET l == NewLine(NewLineWriter)
                  r == AddTime(l, NilKeyStore, KeyA, value)
              IN  TokCall("AddTime", l.buf, value, r.l.buf, r.err)
    /\ UNCHANGED program

TokAppendFloat64(buf, value) ==
    /\ tcall' = TokCall("AppendFloat64", buf, value, AppendFloat64(buf, value), Nil)
    /\ UNCHANGED program

TokAppendString(buf, value) ==
    /\ tcall' = TokCall("AppendString", buf, value, AppendString(buf, value), Nil)
    /\ UNCHANGED program

TokAppendMarshal(buf, value) ==
    /\ tcall' = LET r == AppendMarshal(buf, value)
               IN  TokCall("AppendMarshal", buf, value, r.buf, r.err)
    /\ UNCHANGED program

\* no call has been made yet
TokIdle == tcall.fn = "none"

NextTokens ==
    \/ \E b \in TokBufs, v \in TimeInputs : TokIdle /\ TokAppendTime(b, v)
    \/ \E v \in TimeInputs : TokIdle /\ TokAddTime(v)
    \/ \E b \in TokBufs, v \in FloatInputs : TokIdle /\ TokAppendFloat64(b, v)
    \/ \E b \in TokBufs, v \in StringInputs : TokIdle /\ TokAppendString(b, v)
    \/ \E b \in TokBufs, v \in MarshalInputs : TokIdle /\ TokAppendMarshal(b, v)

SpecTokens == Init /\ [][NextTokens]_vars

\* the bytes the call appended to its buffer
TokAdded == SubSeq(tcall.out, Len(tcall.buf) + 1, Len(tcall.out))

\* token is one quoted string: '"' at both ends and nowhere between
IsQuoted(token) ==
    /\ Len(token) >= 2
    /\ token[1] = 34 /\ token[Len(token)] = 34
    /\ \A i \in 2..(Len(token) - 1) : token[i] # 34

TimeOps == {"AppendTime", "AddTime"}

\* C12: AppendTime and AddTime fail exactly when the year is outside
\* [0, 9999]; a failed call returns the buffer it was given, a successful one
\* the buffer with one quoted timestamp appended (AddTime: after the key).
C12_TimeYearRange ==
    tcall.fn \in TimeOps =>
        /\ tcall.err # Nil <=> (tcall.arg.year < 0 \/ tcall.arg.year > 9999)
        /\ tcall.err # Nil => tcall.out = tcall.buf
        /\ tcall.err = Nil =>
              /\ IsPrefix(tcall.buf, tcall.out)
              /\ LET key == IF tcall.fn = "AddTime" THEN <<34, 97, 34, 58>> ELSE <<>>
                 IN  /\ IsPrefix(key, TokAdded)
                     /\ IsQuoted(SubSeq(TokAdded, Len(key) + 1, Len(TokAdded)))
                     /\ Len(TokAdded) >= Len(key) + 22

\* AppendTime took the years 0 and 9999 or refused the years -1 and 10000
C12_Witness ==
    /\ tcall.fn = "AppendTime"
    /\ \/ tcall.arg.year = 9999 /\ tcall.err = Nil /\ Len(tcall.out) > Len(tcall.buf)
       \/ tcall.arg.year = 10000 /\ tcall.err = ErrTimeRange /\ tcall.out = tcall.buf
    /\ Len(tcall.buf) > 0

\* C13: the text of every accepted timestamp is in UTC, whatever zone the
\* value carries: it ends with the zone designator 'Z' and holds no numeric
\* offset such as +02:00 or -05:30.
C13_TimeIsUTC ==
    (tcall.fn = "AppendTime" /\ tcall.err = Nil) =>
        LET n == Len(TokAdded)
        IN  /\ TokAdded[n - 1] = 90
            /\ \A i \in 1..n : TokAdded[i] # 43
            /\ TokAdded[n - 6] \notin {43, 45}

\* the bytes of a number: the digits, '-', '+', '.' and 'e'
NumberBytes == (48..57) \cup {45, 43, 46, 101}

\* token is a number as JSON writes it, not quoted: an optional '-', digits,
\* an optional '.' with digits, an optional 'e' with a sign and digits
IsNumberToken(token) ==
    LET n == Len(token)
        dots == {i \in 1..n : token[i] = 46}
        es == {i \in 1..n : token[i] = 101}
        signs == {i \in 1..n : token[i] \in {43, 45}}
        IsDigit(i) == i \in 1..n /\ token[i] \in 48..57
    IN  /\ n >= 1
        /\ \A i \in 1..n : token[i] \in NumberBytes
        /\ IsDigit(n)
        /\ IsDigit(1) \/ (token[1] = 45 /\ IsDigit(2))
        /\ Cardinality(dots) <= 1 /\ Cardinality(es) <= 1
        /\ \A i \in dots : IsDigit(i - 1) /\ IsDigit(i + 1) /\ \A j \in es : i < j
        /\ \A i \in es : IsDigit(i - 1) /\ token[i + 1] \in {43, 45}
        /\ \A i \in signs : i = 1 \/ (i - 1) \in es

\* C14: AppendFloat64 returns no error; it appends "+Inf", "-Inf" and "NaN"
\* in quotes for the infinities and NaN, and a number without quotes for
\* every other value.
C14_FloatTokens ==
    tcall.fn = "AppendFloat64" =>
        /\ tcall.err = Nil
        /\ IsPrefix(tcall.buf, tcall.out)
        /\ tcall.arg.class = "+Inf" => TokAdded = <<34, 43, 73, 110, 102, 34>>
        /\ tcall.arg.class = "-Inf" => TokAdded = <<34, 45, 73, 110, 102, 34>>
        /\ tcall.arg.class = "NaN" => TokAdded = <<34, 78, 97, 78, 34>>
        /\ tcall.arg.class = "fin" => IsNumberToken(TokAdded)

\* NaN was written in quotes after the bytes of the buffer
C14_Witness ==
    /\ tcall.fn = "AppendFloat64"
    /\ tcall.arg.class = "NaN"
    /\ Len(tcall.buf) > 0
    /\ tcall.out = Cat(tcall.buf, <<34, 78, 97, 78, 34>>)

HexBytes == (48..57) \cup (97..102)

RECURSIVE WellEscaped(_, _)
\* the bytes of t from position i on are characters of a JSON string: no
\* byte below 0x20, no '"', and '\' only as the start of \n, \r, \t, \", \\
\* or \u and four hex digits
WellEscaped(t, i) ==
    IF i > Len(t) THEN TRUE
    ELSE IF t[i] = 92
         THEN /\ i + 1 <= Len(t)
              /\ IF t[i + 1] = 117
                 THEN /\ i + 5 <= Len(t)
                      /\ \A j \in (i + 2)..(i + 5) : t[j] \in HexBytes
                      /\ WellEscaped(t, i + 6)
                 ELSE /\ t[i + 1] \in {110, 114, 116, 34, 92}
                      /\ WellEscaped(t, i + 2)
         ELSE t[i] >= 32 /\ t[i] # 34 /\ WellEscaped(t, i + 1)

RECURSIVE EscapedText(_, _)
\* what the characters of s from byte i (0-based) on are to become: \n, \r,
\* \t or \u00XX for a control character, \" and \\, \u2028 and \u2029,
\* \ufffd for each invalid byte, every other character as it is
EscapedText(s, i) ==
    IF i >= Len(s) THEN <<>>
    ELSE LET b == At(s, i)
             r == DecodeRuneInString(s, i)
         IN  IF b = 10 THEN <<92, 110>> \o EscapedText(s, i + 1)
             ELSE IF b = 13 THEN <<92, 114>> \o EscapedText(s, i + 1)
             ELSE IF b = 9 THEN <<92, 116>> \o EscapedText(s, i + 1)
             ELSE IF b < 32
             THEN <<92, 117, 48, 48, hex[(b \div 16) + 1], hex[(b % 16) + 1]>>
                      \o EscapedText(s, i + 1)
             ELSE IF b = 34 \/ b = 92 THEN <<92, b>> \o EscapedText(s, i + 1)
             ELSE IF b < 128 THEN <<b>> \o EscapedText(s, i + 1)
             ELSE IF r.c = RuneError /\ r.size = 1
             THEN <<92, 117, 102, 102, 102, 100>> \o EscapedText(s, i + 1)
             ELSE IF r.c = 8232
             THEN <<92, 117, 50, 48, 50, 56>> \o EscapedText(s, i + r.size)
             ELSE IF r.c = 8233
             THEN <<92, 117, 50, 48, 50, 57>> \o EscapedText(s, i + r.size)
             ELSE Slice(s, i, i + r.size) \o EscapedText(s, i + r.size)

FrameTargets == {0, FrameWidth - 1, FrameWidth}

FrDepth == RefDepth(ref[held[1]])

\* the caller has reached its depth
FrAtTarget ==
    /\ held[1] # 0
    /\ \/ plan.phase = "down" /\ FrDepth = plan.target
       \/ plan.phase = "free"

FrMayFree == FrAtTarget /\ plan.nfree < MaxFree

\* the caller may close the scope it is in: one it opened, of the kind list
FrMayClose(list) ==
    /\ held[1] # 0
    /\ FrDepth > 0
    /\ RefTop(ref[held[1]]).list = list

FrFree(op) ==
    plan' = [plan EXCEPT !.phase = "free", !.nfree = @ + 1, !.hist = Append(@, op)]

FrStep(phase, op) ==
    plan' = [plan EXCEPT !.phase = phase, !.hist = Append(@, op)]

others == <<heap, nkeyops, tcall, stores, static>>

NextFrames ==
    \/ \E w \in WriterIds, tg \in FrameTargets, li \in BOOLEAN :
          /\ plan.phase = "none" /\ plan.line < MaxLines
          /\ plan.line > 0 => tg = 0
          /\ tg = 0 => ~li
          /\ NewLineOn(1, w)
          /\ plan' = [plan EXCEPT !.phase = "down", !.list = li, !.target = tg,
                                  !.line = @ + 1, !.nfree = 0, !.hist = <<>>]
          /\ UNCHANGED others
    \/ /\ plan.phase = "down" /\ held[1] # 0 /\ FrDepth < plan.target /\ plan.list
       /\ StartListStep(1, KeyA)
       /\ FrStep("down", "StartList")
       /\ UNCHANGED others
    \/ /\ plan.phase = "down" /\ held[1] # 0 /\ FrDepth < plan.target /\ ~plan.list
       /\ StartRecordStep(1, KeyA)
       /\ FrStep("down", "StartRecord")
       /\ UNCHANGED others
    \/ FrMayFree /\ StartListStep(1, KeyA) /\ FrFree("StartList") /\ UNCHANGED others
    \/ FrMayFree /\ StartRecordStep(1, KeyA) /\ FrFree("StartRecord") /\ UNCHANGED others
    \/ \E v \in Int64Values :
          FrMayFree /\ AddInt64Step(1, KeyA, v) /\ FrFree("AddInt64") /\ UNCHANGED others
    \/ FrMayFree /\ AddTimeStep(1, KeyA, InvalidTime) /\ FrFree("AddTime")
          /\ UNCHANGED others
    \/ FrMayFree /\ FrMayClose(TRUE) /\ EndListStep(1) /\ FrFree("EndList")
          /\ UNCHANGED others
    \/ FrMayFree /\ FrMayClose(FALSE) /\ EndRecordStep(1) /\ FrFree("EndRecord")
          /\ UNCHANGED others
    \/ /\ FrAtTarget \/ plan.phase = "up"
       /\ FrMayClose(TRUE)
       /\ EndListStep(1)
       /\ FrStep("up", "EndList")
       /\ UNCHANGED others
    \/ /\ FrAtTarget \/ plan.phase = "up"
       /\ FrMayClose(FALSE)
       /\ EndRecordStep(1)
       /\ FrStep("up", "EndRecord")
       /\ UNCHANGED others
    \/ \E e \in SinkErrs :
          /\ FrAtTarget \/ (plan.phase = "up" /\ AllEnded(1))
          /\ plan.line > 1 => e = Nil
          /\ EndStep(1, e)
          /\ plan' = [plan EXCEPT !.phase = "none",
                                  !.bal = @ /\ (panicked'[1] \/ FrDepth = 0)]
          /\ UNCHANGED others

SpecFrames == Init /\ [][NextFrames]_vars

\* C16: between NewLine and End, whatever scopes the calls have opened and
\* closed, across the frame boundary through StartRecord or StartList, the
\* writer names the Encoder that issued it, and no call faults: a keyed entry
\* of a record inside an overflow frame has its key looked up and emitted.
C16_EncoderKept ==
    (held[1] # 0 /\ plan.line = 1) =>
        /\ lw[held[1]].encoder = "enc"
        /\ ~panicked[1]

\* C17: every writer NewLine returns, new or from the pool after any earlier
\* line, one ended with scopes still open included, is in the root-open
\* state: the buffer is '{', the depth 0, the scope at depth 0 a record with
\* its first entry pending, no parent frame; its first entry gets no comma.
C17_NewLineRootOpen ==
    [][(last'.op = "NewLine" /\ ncalls' = ncalls + 1) =>
          LET l == lw'[last'.w]
          IN  /\ l.buf = <<123>>
              /\ l.depth = 0
              /\ 0 \in l.isFirstEntry
              /\ 0 \notin l.isArray
              /\ Len(l.parent) = 0
              /\ l.encoder = "enc"
              /\ AddInt64(l, keys, KeyA, -1) =
                    Ok([l EXCEPT !.buf = <<123, 34, 97, 34, 58, 45, 49>>,
                                 !.isFirstEntry = l.isFirstEntry \ {0}])]_vars

\* the call named op, made on the writer of r unless an earlier call panicked
FreshCall(r, op) ==
    IF r.panic THEN r
    ELSE IF op = "StartList" THEN StartList(r.l, keys, KeyA)
    ELSE IF op = "StartRecord" THEN StartRecord(r.l, keys, KeyA)
    ELSE IF op = "EndList" THEN EndList(r.l)
    ELSE IF op = "EndRecord" THEN EndRecord(r.l)
    ELSE IF op = "AddInt64" THEN AddInt64(r.l, keys, KeyA, -1)
    ELSE LET a == AddTime(r.l, keys, KeyA, InvalidTime)
         IN  [l |-> a.l, panic |-> a.panic]

RECURSIVE FreshCalls(_, _, _)
FreshCalls(r, ops, i) ==
    IF i > Len(ops) THEN r ELSE FreshCalls(FreshCall(r, ops[i]), ops, i + 1)

\* the calls ops made on a newly allocated writer after NewLine
FreshLine(ops) == FreshCalls(Ok(NewLine(NewLineWriter)), ops, 1)

\* the levels of the bit set that the writer's frame has open
OpenBits(l, bits) == {d \in bits : d <= l.depth}

\* C18: after lines that were ended with every scope closed, a line built on
\* the writer NewLine returns is, call by call, the line the same calls build
\* on a newly allocated writer, with the same nesting state, and the same
\* line is written to the sink.
C18_RecycledAsFresh ==
    (plan.line > 1 /\ plan.bal) =>
        LET f == FreshLine(plan.hist)
        IN  /\ held[1] # 0 =>
                 LET l == lw[held[1]]
                 IN  /\ l.buf = f.l.buf
                     /\ l.depth = f.l.depth
                     /\ l.isFirstEntry = f.l.isFirstEntry
                     /\ OpenBits(l, l.isArray) = OpenBits(f.l, f.l.isArray)
                     /\ Len(l.parent) = Len(f.l.parent)
                     /\ panicked[1] = f.panic
            /\ (held[1] = 0 /\ plan.phase = "none") =>
                 sink[Len(sink)].data = endLine(f.l).buf

\* a line with a list and an entry is being built on a writer that has been
\* through the pool after a line that used an overflow frame
C18_Witness ==
    /\ plan.line > 1 /\ plan.bal
    /\ held[1] # 0 /\ Len(sink) > 0 /\ held[1] = sink[1].w
    /\ sink[1].maxd >= FrameWidth
    /\ plan.hist = <<"StartList", "AddInt64">>
    /\ lw[held[1]].buf = <<123, 34, 97, 34, 58, 91, 45, 49>>

RECURSIVE ChainLen(_)
\* the number of parent frames of the writer
ChainLen(l) == IF Len(l.parent) = 0 THEN 0 ELSE 1 + ChainLen(l.parent[1])

\* C19: while a writer is used with its Start* and End* calls balanced, the
\* depth of its frame stays within 0..FrameWidth-1, as does every bit of the
\* two bit sets, and FrameWidth times the length of the parent chain plus the
\* depth is the number of Start* less the number of End* calls since NewLine.
C19_DepthWithinFrame ==
    (held[1] # 0 /\ plan.bal /\ ~panicked[1]) =>
        LET l == lw[held[1]]
        IN  /\ l.depth \in 0..(FrameWidth - 1)
            /\ l.isFirstEntry \subseteq 0..(FrameWidth - 1)
            /\ l.isArray \subseteq 0..(FrameWidth - 1)
            /\ FrameWidth * ChainLen(l) + l.depth = RefDepth(ref[held[1]])

\* the writer is one level into an overflow frame, 65 scopes deep
C19_Witness ==
    /\ held[1] # 0 /\ plan.bal /\ ~panicked[1]
    /\ ChainLen(lw[held[1]]) = 1
    /\ lw[held[1]].depth = 1
    /\ RefDepth(ref[held[1]]) = FrameWidth + 1

\* C20: EndRecord or EndList at depth 0 of an overflow frame resumes the
\* parent frame as it was when the frame was opened (depth FrameWidth-1, its
\* bit sets, its own parent) with the buffer of the child, and appends the
\* closing bracket; the next entry of the resumed scope gets a comma, and
\* its key exactly if that scope is a record.
C20_ParentFrameResumed ==
    [][(/\ last'.op \in EndScopeOps /\ ncalls' = ncalls + 1
        /\ lw[last'.w].depth = 0
        /\ Len(lw[last'.w].parent) > 0) =>
          LET l == lw[last'.w]
              p == l.parent[1]
              l2 == lw'[last'.w]
              bracket == IF last'.op = "EndList" THEN <<93>> ELSE <<125>>
              next == AddInt64(l2, keys, KeyA, -1)
              key == IF (FrameWidth - 1) \in l2.isArray THEN <<>> ELSE <<34, 97, 34, 58>>
          IN  /\ ~last'.panic
              /\ l2 = [p EXCEPT !.buf = Cat(l.buf, bracket)]
              /\ l2.depth = FrameWidth - 1
              /\ ~next.panic
              /\ next.l.buf = l2.buf \o <<44>> \o key \o <<45, 49>>]_vars

\* EndList has closed the first scope of an overflow frame that held an
\* entry, and the writer is back at the last level of the root frame
C20_Witness ==
    /\ last.op = "EndList" /\ ~last.panic
    /\ RefDepth(ref[last.w]) = FrameWidth - 1
    /\ ref[last.w].maxd >= FrameWidth
    /\ lw[last.w].depth = FrameWidth - 1
    /\ Len(lw[last.w].parent) = 0
    /\ LET b == lw[last.w].buf
       IN  SubSeq(b, Len(b) - 3, Len(b)) = <<91, 45, 49, 93>>

(***************************************************************************)
(* Claims about the scopes of one frame, checked under Spec.               *)
(***************************************************************************)
\* C21: a scope opened at a depth does not depend on the scope opened and
\* closed at that depth before: after StartRecord the new scope is a record
\* whose first entry is pending, after StartList a list whose first entry
\* is pending, and its first entry is written without a comma, with a key
\* exactly in a record; EndRecord and EndList leave the first-entry and list
\* bits of the enclosing scopes as they were.
C21_ScopeIsNew ==
    [][/\ (last'.op \in {"StartRecord", "StartList"} /\ ncalls' = ncalls + 1
           /\ ~last'.panic) =>
             LET l == lw[last'.w]
                 l2 == lw'[last'.w]
                 list == last'.op = "StartList"
                 first == AddInt64(l2, keys, KeyA, -1)
                 key == IF list THEN <<>> ELSE <<34, 97, 34, 58>>
             IN  /\ l2.depth = l.depth + 1
                 /\ l2.depth \in l2.isFirstEntry
                 /\ l2.depth \in l2.isArray <=> list
                 /\ ~first.panic
                 /\ first.l.buf = l2.buf \o key \o <<45, 49>>
       /\ (last'.op \in EndScopeOps /\ ncalls' = ncalls + 1 /\ ~last'.panic) =>
             LET l == lw[last'.w]
                 l2 == lw'[last'.w]
             IN  /\ l2.depth = l.depth - 1
                 /\ \A d \in 0..l2.depth :
                       /\ d \in l2.isFirstEntry <=> d \in l.isFirstEntry
                       /\ d \in l2.isArray <=> d \in l.isArray]_vars

\* StartRecord has opened a record at the depth where a list with an entry
\* was opened and closed before
C21_Witness ==
    /\ last.op = "StartRecord" /\ ~last.panic
    /\ lw[last.w].buf = <<123, 34, 97, 34, 58, 91, 45, 49, 93, 44,
                          34, 97, 34, 58, 123>>
    /\ lw[last.w].depth = 1
    /\ 1 \in lw[last.w].isFirstEntry
    /\ 1 \notin lw[last.w].isArray

(***************************************************************************)
(* SpecCache: keys are prepared, any number of them, with strings that     *)
(* need escaping and strings that do not, at either of two addresses;      *)
(* then one line with one entry is built and ended.  tcall holds the key,  *)
(* with its address, of the last PrepareKey or of the entry.               *)
(***************************************************************************)
\* the strings of the keys: "", "a", "<", U+00E9 (c3 a9) alone and after
\* "a", which are stored as they are; '"', "a" and '"', '\', newline, 0x1f
\* and U+2028 (e2 80 a8), which are escaped; 0x80 and c3 alone, which are
\* invalid UTF-8
CacheStrings ==
    {<<>>, <<97>>, <<60>>, <<195, 169>>, <<97, 195, 169>>,
     <<34>>, <<97, 34>>, <<92>>, <<10>>, <<31>>, <<226, 128, 168>>,
     <<128>>, <<195>>}
CacheAddrs == {1, 2}
CacheKeys == {Str(a, s) : a \in CacheAddrs, s \in CacheStrings}

CachePut(key) ==
    /\ held[1] = 0 /\ ncalls = 0
    /\ PrepareKey(key)
    /\ tcall' = TokCall("Put", <<>>, key, <<>>, Nil)
    /\ UNCHANGED <<plan, heap, nkeyops, stores, static>>

\* the first entry of the line, with the key looked up in the cache
CacheAdd(key) ==
    /\ held[1] # 0
    /\ lw[held[1]].buf = <<123>>
    /\ AddInt64Step(1, key, -1)
    /\ tcall' = TokCall("Append", lw[held[1]].buf, key, lw'[held[1]].buf, Nil)
    /\ UNCHANGED <<plan, heap, nkeyops, stores, static>>

NextCache ==
    \/ \E k \in CacheKeys : CachePut(k)
    \/ ncalls = 0 /\ NewLineOn(1, 1) /\ UNCHANGED driver
    \/ \E k \in CacheKeys : CacheAdd(k)
    \/ AllEnded(1) /\ EndStep(1, Nil) /\ UNCHANGED driver

SpecCache == Init /\ [][NextCache]_vars

RECURSIVE Plain(_, _)
\* s[i:] is valid UTF-8 without control characters, '"', '\', U+2028 and
\* U+2029: the strings JSON takes between quotes as they are
Plain(s, i) ==
    IF i >= Len(s) THEN TRUE
    ELSE LET b == At(s, i)
             r == DecodeRuneInString(s, i)
         IN  IF b < 128
             THEN b >= 32 /\ b # 34 /\ b # 92 /\ Plain(s, i + 1)
             ELSE /\ ~(r.c = RuneError /\ r.size = 1)
                  /\ r.c \notin {8232, 8233}
                  /\ Plain(s, i + r.size)

Quoted(s) == <<34>> \o s \o <<34>>

\* C22: every entry of the key cache is a quote, the bytes of the key it was
\* stored for, and a quote.  PrepareKey of a key that needs no escaping
\* stores that form at the key's address; for a key that needs escaping the
\* escaped form is longer than the key by more than 2 and nothing is
\* stored.  An entry is emitted for a key only when its length is the
\* key's length + 2; otherwise the key is escaped anew.
C22_CacheEntriesUnescaped ==
    [][/\ \A a \in DOMAIN keys'.m :
             LET b == keys'.m[a]
             IN  /\ Len(b) >= 2
                 /\ b = Quoted(SubSeq(b, 2, Len(b) - 1))
                 /\ Plain(SubSeq(b, 2, Len(b) - 1), 0)
       /\ last'.op = "PrepareKey" =>
             LET key == tcall'.arg
                 a == keyStoreKey(key)
             IN  IF Plain(key.s, 0)
                 THEN /\ a \in DOMAIN keys'.m
                      /\ keys'.m[a] = Quoted(key.s)
                      /\ \A x \in DOMAIN keys'.m \ {a} :
                            x \in DOMAIN keys.m /\ keys'.m[x] = keys.m[x]
                 ELSE /\ keys'.m = keys.m
                      /\ Len(AppendString(<<>>, key.s)) > Len(key.s) + 2
       /\ last'.op = "AddInt64" =>
             LET key == tcall'.arg
                 b == keyStoreGet(keys, keyStoreKey(key))
                 tok == IF Len(b) = Len(key.s) + 2 THEN b
                        ELSE AppendString(<<>>, key.s)
             IN  /\ ~last'.panic
                 /\ tcall'.out = <<123>> \o tok \o <<58, 45, 49>>]_vars

\* both addresses hold entries, one of a key with a two-byte character, and
\* the key prepared last, at an address that holds an entry, needs escaping
C22_Witness ==
    /\ last.op = "PrepareKey"
    /\ tcall.fn = "Put" /\ tcall.arg = Str(1, <<226, 128, 168>>)
    /\ DOMAIN keys.m = {1, 2}
    /\ keys.m[1] = <<34, 97, 34>>
    /\ keys.m[2] = <<34, 97, 195, 169, 34>>

(***************************************************************************)
(* A further claim checked under Spec.                                     *)
(***************************************************************************)
\* C23: only PrepareKey changes the key cache: NewLine, every Add*, Start*
\* and End* call and End leave it as it was, whether or not they look a key
\* up in it.
C23_OnlyPrepareKeyWrites ==
    [][last'.op # "PrepareKey" => keys' = keys]_vars

\* with a key prepared, a line with a keyed entry and a record opened under
\* a key has been written
C23_Witness ==
    /\ DOMAIN keys.m # {}
    /\ last.op = "End"
    /\ Len(sink) = 1
    /\ sink[1].data = <<123, 34, 97, 34, 58, 45, 49, 44, 34, 97, 34, 58, 123, 125,
                        125, 10>>

(***************************************************************************)
(* SpecClone: a key store of its own is filled with Put, cloned once, at   *)
(* any moment, the first included, and the two stores are filled further,  *)
(* MaxKeyOps calls of Put in all.  A keyStore is a struct holding a map,   *)
(* which is a reference: stores.maps are the maps allocated, a store is    *)
(* the index of its map or 0 for nil.  The byte slices the maps hold are   *)
(* never written after they are stored, so they are kept as values.        *)
(***************************************************************************)
\* the keyStore whose keys field points to map p
StoreView(maps, p) == IF p = 0 THEN NilKeyStore ELSE [nil |-> FALSE, m |-> maps[p]]

\* mutant of keyStoreClone: the clone holds the map of the original
keyStoreCloneShared(maps, p) == [maps |-> maps, p |-> p]

\* keyStore.Clone: a nil map is returned as it is, any other is copied entry
\* by entry into a map of its own
keyStoreClone(maps, p) ==
    IF p = 0 THEN [maps |-> maps, p |-> 0]
    ELSE [maps |-> Append(maps, maps[p]), p |-> Len(maps) + 1]

\* keyStore.Put through the pointer to a store: a nil map is allocated first
keyStorePutAt(maps, p, key) ==
    LET r == keyStorePut(StoreView(maps, p), key)
    IN  IF p = 0
        THEN [maps |-> Append(maps, r.m), p |-> Len(maps) + 1]
        ELSE [maps |-> [maps EXCEPT ![p] = r.m], p |-> p]

\* "a" and "<" at address 1, "a" and '"' at address 2
CloneKeys == {Str(1, <<97>>), Str(1, <<60>>), Str(2, <<97>>), Str(2, <<34>>)}

ClonePutOrig(key) ==
    /\ nkeyops < MaxKeyOps
    /\ LET r == keyStorePutAt(stores.maps, stores.orig, key)
       IN  stores' = [stores EXCEPT !.maps = r.maps, !.orig = r.p, !.op = "PutOrig"]
    /\ nkeyops' = nkeyops + 1
    /\ UNCHANGED <<keys, lw, allocated, pool, held, panicked, sink,
                   ref, shadow, last, ncalls, plan, heap, tcall, static>>

CloneClone ==
    /\ ~stores.cloned
    /\ LET r == keyStoreClone(stores.maps, stores.orig)
       IN  stores' = [stores EXCEPT !.maps = r.maps, !.clone = r.p,
                                    !.cloned = TRUE, !.op = "Clone"]
    /\ UNCHANGED <<keys, lw, allocated, pool, held, panicked, sink,
                   ref, shadow, last, ncalls, plan, heap, nkeyops, tcall, static>>

ClonePutClone(key) ==
    /\ stores.cloned
    /\ nkeyops < MaxKeyOps
    /\ LET r == keyStorePutAt(stores.maps, stores.clone, key)
       IN  stores' = [stores EXCEPT !.maps = r.maps, !.clone = r.p, !.op = "PutClone"]
    /\ nkeyops' = nkeyops + 1
    /\ UNCHANGED <<keys, lw, allocated, pool, held, panicked, sink,
                   ref, shadow, last, ncalls, plan, heap, tcall, static>>

NextClone ==
    \/ \E k \in CloneKeys : ClonePutOrig(k)
    \/ CloneClone
    \/ \E k \in CloneKeys : ClonePutClone(k)

SpecClone == Init /\ [][NextClone]_vars

\* the stores x and y answer every lookup alike: the entry found, and the
\* bytes Append emits for the key
SameLookups(x, y) ==
    \A k \in CloneKeys \cup {Str(3, <<97>>)} :
        /\ keyStoreGet(x, keyStoreKey(k)) = keyStoreGet(y, keyStoreKey(k))
        /\ keyStoreAppend(x, <<>>, k) = keyStoreAppend(y, <<>>, k)

\* C24: the clone answers every lookup as the original did when it was
\* cloned, the original being empty or not; a Put on the clone leaves the
\* original's answers as they were, and a Put on the original leaves the
\* clone's.
C24_CloneIsIndependent ==
    [][LET o == StoreView(stores.maps, stores.orig)
           c == StoreView(stores.maps, stores.clone)
           o2 == StoreView(stores'.maps, stores'.orig)
           c2 == StoreView(stores'.maps, stores'.clone)
       IN  /\ stores'.op = "Clone" => SameLookups(c2, o) /\ SameLookups(o2, o)
           /\ stores'.op = "PutClone" => SameLookups(o2, o)
           /\ (stores'.op = "PutOrig" /\ stores.cloned) => SameLookups(c2, c)]_vars

\* the original was cloned with an entry; then the clone was given an entry
\* at the other address and the original's entry was overwritten
C24_Witness ==
    /\ stores.cloned /\ stores.op = "PutOrig"
    /\ stores.orig = 1 /\ stores.clone = 2
    /\ stores.maps[1] = (1 :> <<34, 60, 34>>)
    /\ stores.maps[2] = (1 :> <<34, 97, 34>>) @@ (2 :> <<34, 97, 34>>)

(***************************************************************************)
(* Further claims about package tokens, checked under SpecTokens.          *)
(***************************************************************************)
\* the exponent of a number token: the bytes after the 'e' and its sign
Exponent(token) ==
    LET es == {i \in 1..Len(token) : token[i] = 101}
        i == CHOOSE j \in es : TRUE
    IN  IF es = {} THEN <<>> ELSE SubSeq(token, i + 2, Len(token))

\* C25: a finite value, zero and negative values included, is written with
\* an exponent exactly when its absolute value is below 1e-6 or at least
\* 1e21, and 1e-6 as 0.000001; an exponent never starts with the digit 0.
C25_FloatNotation ==
    (tcall.fn = "AppendFloat64" /\ tcall.arg.class = "fin") =>
        LET v == tcall.arg
            small == v.d = <<>> \/ v.dp <= -6
            large == v.d # <<>> /\ v.dp >= 22
        IN  /\ (101 \in {TokAdded[i] : i \in 1..Len(TokAdded)}) <=> (small \/ large)
            /\ (v.d = <<1>> /\ v.dp = -5 /\ ~v.neg) =>
                  TokAdded = <<48, 46, 48, 48, 48, 48, 48, 49>>
            /\ (small \/ large) =>
                  /\ Len(Exponent(TokAdded)) >= 1
                  /\ Exponent(TokAdded)[1] # 48

\* C27: AppendMarshal appends what the encoder of encoding/json writes for
\* the value, without the newline that ends it, and with '<', '>' and '&'
\* as they are; when the encoder fails it returns that error and the buffer
\* it was given.
C27_MarshalToken ==
    tcall.fn = "AppendMarshal" =>
        IF tcall.arg.kind = "ErrorMarshal"
        THEN tcall.err = ErrMarshal /\ tcall.out = tcall.buf
        ELSE /\ tcall.err = Nil
             /\ IsPrefix(tcall.buf, tcall.out)
             /\ TokAdded \o <<10>> = jsonEncode(tcall.arg, FALSE).out
             /\ TokAdded[Len(TokAdded)] # 10
             /\ tcall.arg.kind = "String" => TokAdded = Quoted(tcall.arg.s)
             /\ tcall.arg = Point(1, 2) =>
                   TokAdded = <<123, 34, 120, 34, 58, 49, 44, 34, 121, 34, 58, 50, 125>>

\* "<>" was appended, as it is, to a buffer that held bytes
C27_Witness ==
    /\ tcall.fn = "AppendMarshal"
    /\ tcall.arg = StringValue(<<60, 62>>)
    /\ Len(tcall.buf) > 0
    /\ tcall.out = tcall.buf \o <<34, 60, 62, 34>>

(***************************************************************************)
(* SpecStatic: NewStaticFields is called, the writer it returns is given   *)
(* up to MaxCalls - 1 calls, closing only scopes it opened, and is ended   *)
(* with every scope closed.  Then a line is built on the Encoder, with up  *)
(* to MaxFree calls, and ended.  No key is prepared.  plan.hist holds the  *)
(* calls made on the writer of NewStaticFields.  The writer is one of the  *)
(* writers of lw; its encoder, "static", is the Encoder NewStaticFields    *)
(* makes for it, with a pool and a sink of its own.                        *)
(***************************************************************************)
\* &LineWriter{isFirstEntry: 1, encoder: &Encoder{w: staticFieldsWriter{f}}}
NewStaticWriter == LineWriter(<<>>, 0, {0}, {}, <<>>, "static")

\* mutant of staticFieldsWriterWrite: only the newline is trimmed
staticFieldsWriterWriteKeepBrace(st, data) ==
    [st EXCEPT !.arr = data, !.n = Len(data) - 1]

\* staticFieldsWriter.Write: buf = data[:len(data)-2], a slice of data's array
staticFieldsWriterWrite(st, data) ==
    [st EXCEPT !.arr = data, !.n = Len(data) - 2]

\* StaticFields.buf
StaticBuf == SubSeq(static.arr, 1, static.n)

\* the array arr after buf, a slice of it from its start, was written: an
\* append that does not fit the array goes to a new one
StoreBytes(arr, buf) ==
    IF Len(buf) <= Len(arr)
    THEN [i \in 1..Len(arr) |-> IF i <= Len(buf) THEN buf[i] ELSE arr[i]]
    ELSE arr

\* a call on a writer writes to the array of StaticFields.buf if the
\* writer's buffer is on that array
StaticAlias ==
    static' = [static EXCEPT !.arr = IF static.done
                                     THEN StoreBytes(@, lw'[static.w].buf)
                                     ELSE @]

NewStaticFieldsStep(w) ==
    /\ static.w = 0 /\ held[1] = 0
    /\ w \notin allocated
    /\ \A v \in WriterIds \ allocated : w <= v
    /\ allocated' = allocated \cup {w}
    /\ lw' = [lw EXCEPT ![w] = NewStaticWriter]
    /\ held' = [held EXCEPT ![1] = w]
    /\ ref' = [ref EXCEPT ![w] = RefInit]
    /\ shadow' = [shadow EXCEPT ![w] = lw'[w]]
    /\ last' = Call(1, w, "NewStaticFields", <<>>, <<>>, Nil, FALSE)
    /\ ncalls' = ncalls + 1
    /\ static' = [static EXCEPT !.w = w]
    /\ plan' = [plan EXCEPT !.phase = "static", !.hist = <<>>]
    /\ UNCHANGED <<keys, pool, panicked, sink, heap, nkeyops, tcall, stores>>

\* End on the writer of NewStaticFields: l.encoder.w is the
\* staticFieldsWriter, l.encoder.p the pool of that Encoder
StaticEndStep ==
    /\ Building(1) /\ held[1] = static.w /\ AllEnded(1)
    /\ LET w == held[1]
           l1 == endLine(lw[w])
       IN  /\ static' = [staticFieldsWriterWrite(static, l1.buf) EXCEPT
                            !.done = TRUE, !.pool = poolPut(@, w)]
           /\ lw' = [lw EXCEPT ![w] = resetBuf(l1)]
           /\ last' = Call(1, w, "End", <<>>, <<>>, Nil, FALSE)
    /\ held' = [held EXCEPT ![1] = 0]
    /\ ncalls' = ncalls + 1
    /\ plan' = [plan EXCEPT !.phase = "done"]
    /\ UNCHANGED <<keys, allocated, pool, panicked, sink, ref, shadow,
                   heap, nkeyops, tcall, stores>>

\* the call op is made on the writer of NewStaticFields, or on the line
StaticCall(op) ==
    /\ held[1] # 0
    /\ IF held[1] = static.w
       THEN /\ Len(plan.hist) < MaxCalls - 1
            /\ plan' = [plan EXCEPT !.hist = Append(@, op)]
       ELSE /\ plan.nfree < MaxFree
            /\ plan' = [plan EXCEPT !.nfree = @ + 1]
    /\ StaticAlias
    /\ UNCHANGED <<heap, nkeyops, tcall, stores>>

NextStatic ==
    \/ \E w \in WriterIds : NewStaticFieldsStep(w)
    \/ StartListStep(1, KeyA) /\ StaticCall("StartList")
    \/ StartRecordStep(1, KeyA) /\ StaticCall("StartRecord")
    \/ AddInt64Step(1, KeyA, -1) /\ StaticCall("AddInt64")
    \/ AddTimeStep(1, KeyA, InvalidTime) /\ StaticCall("AddTime")
    \/ FrMayClose(TRUE) /\ EndListStep(1) /\ StaticCall("EndList")
    \/ FrMayClose(FALSE) /\ EndRecordStep(1) /\ StaticCall("EndRecord")
    \/ StaticEndStep
    \/ \E w \in WriterIds :
          /\ static.done /\ plan.phase = "done"
          /\ NewLineOn(1, w)
          /\ plan' = [plan EXCEPT !.phase = "line", !.nfree = 0]
          /\ StaticAlias
          /\ UNCHANGED <<heap, nkeyops, tcall, stores>>
    \/ /\ held[1] # 0 /\ held[1] # static.w /\ AllEnded(1)
       /\ EndStep(1, Nil)
       /\ plan' = [plan EXCEPT !.phase = "ended"]
       /\ StaticAlias
       /\ UNCHANGED <<heap, nkeyops, tcall, stores>>

SpecStatic == Init /\ [][NextStatic]_vars

\* C26: once the writer of NewStaticFields is ended, with every scope
\* closed, StaticFields.buf is what a line built by the same calls holds
\* between its opening '{' and its closing '}' and newline, and is empty
\* when no call added anything; End of that writer writes nothing to the
\* sink of the Encoder, and a line built on the Encoder afterwards leaves
\* StaticFields.buf as it was.
C26_StaticFieldsAreRecordBody ==
    /\ static.done =>
          /\ endLine(FreshLine(plan.hist).l).buf = <<123>> \o StaticBuf \o <<125, 10>>
          /\ (\A i \in 1..Len(plan.hist) : plan.hist[i] = "AddTime") => StaticBuf = <<>>
    /\ \A i \in 1..Len(sink) : sink[i].w # static.w
    /\ plan.phase # "ended" => sink = <<>>
    /\ plan.phase = "ended" => Len(sink) = 1 /\ static.w \notin pool

\* StaticFields holds a record with an entry and an entry after it, and a
\* line with an entry has been written to the sink since
C26_Witness ==
    /\ static.done /\ plan.phase = "ended"
    /\ StaticBuf = <<34, 97, 34, 58, 123, 34, 97, 34, 58, 45, 49, 125, 44,
                     34, 97, 34, 58, 45, 49>>
    /\ Len(sink) = 1
    /\ sink[1].data = <<123, 34, 97, 34, 58, 45, 49, 125, 10>>

=============================================================================
